---------------------------- MODULE Spec2Model ----------------------------
(***************************************************************************)
(* State reconciliation and presentation-state engine of whatsapp-cli      *)
(* (src/src/ui/App.tsx, src/src/whatsapp.ts).                              *)
(*                                                                         *)
(* JavaScript values are modelled as follows.                              *)
(*   string      a sequence of one-character strings ("1@c.us" is          *)
(*               <<"1","@","c",".","u","s">>); the value undefined of a    *)
(*               string-typed field is UndefStr                            *)
(*   number      an integer >= 0; undefined is UndefNum                    *)
(*   boolean     "true" / "false"; undefined is UndefBool                  *)
(*   object      a function whose DOMAIN is the set of own keys, so that    *)
(*               object spread and "key absent" are what they are in JS    *)
(*   array       a sequence                                                *)
(***************************************************************************)
EXTENDS Integers, Sequences, FiniteSets, TLC

VARIABLES
    chats,             \* Chat[]                       (App.tsx:81)
    contacts,          \* Record<string, Contact>      (App.tsx:82)
    messages,          \* Record<string, Message[]>    (App.tsx:83)
    contactOverrides,  \* Record<string, string>       (App.tsx:84)
    client,            \* WhatsAppClient | null        (App.tsx:88), as a boolean
    selectedChatId,    \* string | null                (App.tsx:85), null is UndefStr
    input,             \* the text of the input box    (App.tsx:86)
    searchQuery,       \* string                       (App.tsx:87)
    replyingTo,        \* Message | null               (App.tsx:92), <<>> is null
    isSyncing,         \* boolean                      (App.tsx:94)
    syncProgress,      \* number, in percent           (App.tsx:95)
    errorMsg,          \* string | null                (App.tsx:97), null is UndefStr
    exited,            \* exit() of useApp was called  (App.tsx:75)
    syncTimers,        \* pending timers that end the sync display (App.tsx:303)
    outbox,            \* the calls made to the transport, in order
    connected,         \* boolean                      (App.tsx:80)
    chatOffset,        \* number                       (App.tsx:89)
    focusedPane,       \* 'input' | 'chats' | 'messages' | 'members' (App.tsx:90)
    selectedMessageIndex, \* number, -1 for none       (App.tsx:91)
    showMembers,       \* boolean                      (App.tsx:93)
    downloadingFile,   \* string | null                (App.tsx:96), null is UndefStr
    crashed,           \* an exception left a handler or the render uncaught
    dirty,             \* the effect dependencies set since the effects last ran
    fetches,           \* the chat ids of the groupMetadata calls in flight (App.tsx:261)
    dataFile,          \* whatsapp_data.json: <<>> when absent, <<content>> otherwise
    overridesFile,     \* contacts_overrides.json, likewise
    fnIn,              \* argument of the function applied (function specifications)
    fnOut,             \* sequence of the results obtained so far
    last,              \* history: the last store operation applied and its arguments
    prevChats,         \* history: chats before the last call of updateChatList
    prevContacts,      \* history: contacts before the last call of updateContacts
    appendLog,         \* history: per chat, every message appended to its window
                       \* since the store was last cleared
    aliasLog,          \* history: per number, the last alias command the user ran
    socket,            \* this.socket as the transport reports it (whatsapp.ts:147):
                       \* "none", "connecting", "open" or "closed"
    reconnectTimers,   \* pending timers of the reconnect (whatsapp.ts:175)
    qrCodeString,      \* string | null                (App.tsx:79), null is UndefStr
    inits,             \* history: the calls of WhatsAppClient.init so far
    closeLog,          \* history: the status code of every close so far
    persistAge,        \* ticks since the persistence interval was set or fired
    sinceWrite         \* history: ticks since the records were last written

storeVars == <<chats, contacts, messages, contactOverrides>>
appVars == <<client, selectedChatId, input, searchQuery, replyingTo, isSyncing,
             syncProgress, errorMsg, exited, syncTimers, outbox>>
navVars == <<connected, chatOffset, focusedPane, selectedMessageIndex, showMembers,
             downloadingFile, crashed>>
effectVars == <<dirty, fetches>>
diskVars == <<dataFile, overridesFile>>
fnVars == <<fnIn, fnOut>>
historyVars == <<last, prevChats, prevContacts, appendLog, aliasLog>>
connVars == <<socket, reconnectTimers, qrCodeString, inits, closeLog>>
clockVars == <<persistAge, sinceWrite>>

vars == <<storeVars, appVars, navVars, effectVars, diskVars, fnVars, historyVars,
          connVars, clockVars>>

----------------------------------------------------------------------------
(* Bounds of the model *)

\* longest local part (the digits before '@') of an enumerated identifier
MaxLocalLen == 2
\* most suffixes chained after a local part of an enumerated identifier
MaxSuffixes == 2
\* longest contact list of one contacts event
MaxContactList == 2
\* timestamps of chats and messages are 1..MaxTs
MaxTs == 2

----------------------------------------------------------------------------
(* Strings *)

UndefStr == <<"undefined">>
UndefNum == -1
UndefBool == "undefined"

LEGACY == <<"@", "c", ".", "u", "s">>
CANON == <<"@", "s", ".", "w", "h", "a", "t", "s", "a", "p", "p", ".", "n", "e", "t">>
GROUPSUFFIX == <<"@", "g", ".", "u", "s">>

\* !s for a string-typed value: undefined and '' are falsy
Falsy(s) == s = UndefStr \/ s = <<>>
Truthy(s) == ~Falsy(s)

\* String.prototype.endsWith
EndsWith(s, suf) ==
    /\ Len(s) >= Len(suf)
    /\ SubSeq(s, Len(s) - Len(suf) + 1, Len(s)) = suf

\* String.prototype.startsWith
StartsWith(s, pre) ==
    /\ Len(s) >= Len(pre)
    /\ SubSeq(s, 1, Len(pre)) = pre

\* String.prototype.indexOf, 1-based; 0 when pat does not occur
IndexOf(s, pat) ==
    LET hits == {i \in 1..(Len(s) - Len(pat) + 1) : SubSeq(s, i, i + Len(pat) - 1) = pat}
    IN  IF hits = {} THEN 0 ELSE CHOOSE i \in hits : \A j \in hits : i <= j

\* String.prototype.includes
Includes(s, pat) == IndexOf(s, pat) # 0

\* String.prototype.replace with a string pattern: the FIRST occurrence only
ReplaceFirst(s, pat, rep) ==
    LET i == IndexOf(s, pat)
    IN  IF i = 0 THEN s
        ELSE SubSeq(s, 1, i - 1) \o rep \o SubSeq(s, i + Len(pat), Len(s))

\* the part of s before the first occurrence of the separator: s.split(sep)[0]
SplitFirst(s, sep) ==
    LET i == IndexOf(s, sep)
    IN  IF i = 0 THEN s ELSE SubSeq(s, 1, i - 1)

----------------------------------------------------------------------------
(* Objects *)

\* {} and the empty Record
EmptyObj == [k \in {} |-> 0]

\* o.k, where undef is what a missing key reads as
Get(o, k, undef) == IF k \in DOMAIN o THEN o[k] ELSE undef

\* { ...a, ...b }
Spread(a, b) ==
    [k \in DOMAIN a \cup DOMAIN b |-> IF k \in DOMAIN b THEN b[k] ELSE a[k]]

\* { ...o, k: v } and o[k] = v
With(o, k, v) ==
    [x \in DOMAIN o \cup {k} |-> IF x = k THEN v ELSE o[x]]

\* map[key] of a Record: <<>> is undefined, <<v>> the object found
Lookup(map, key) == IF key \in DOMAIN map THEN <<map[key]>> ELSE <<>>

\* a || b for two optional objects
OrElse(a, b) == IF a # <<>> THEN a ELSE b

----------------------------------------------------------------------------
(* Identity Normalizer *)

normalizeJidNoop(jid) == jid

normalizeJid(jid) ==
    IF Falsy(jid) THEN jid
    ELSE IF EndsWith(jid, LEGACY) THEN ReplaceFirst(jid, LEGACY, CANON)
    ELSE IF EndsWith(jid, CANON) THEN jid
    ELSE jid

----------------------------------------------------------------------------
(* Display Name Resolver *)

\* contacts[jid] || contacts[normalized] || contacts[jid.replace('@s.whatsapp.net', '@c.us')]
getContactById(jid) ==
    LET normalized == normalizeJid(jid)
    IN  OrElse(Lookup(contacts, jid),
        OrElse(Lookup(contacts, normalized),
               Lookup(contacts, ReplaceFirst(jid, CANON, LEGACY))))

\* a variant that accepts every name
looksLikeMemberListNever(name) == FALSE

looksLikeMemberList(name) ==
    IF Falsy(name) THEN FALSE
    ELSE Includes(name, <<",">>) \/ Includes(name, <<";">>)

DigitChars == {"0", "1", "2", "3", "4", "5", "6", "7", "8", "9"}
SpaceChars == {" "}

\* /^[\d\s+()-]+$/.test(s)
IsNumericName(s) ==
    /\ Len(s) > 0
    /\ \A i \in 1..Len(s) : s[i] \in DigitChars \cup SpaceChars \cup {"+", "(", ")", "-"}

StrUnknown == <<"U", "n", "k", "n", "o", "w", "n">>
StrGroup == <<"G", "r", "o", "u", "p">>

\* contact?.name and contact?.notify of an optional contact
ContactField(contact, k) ==
    IF contact = <<>> THEN UndefStr ELSE Get(contact[1], k, UndefStr)

\* a variant with the push name consulted before the address-book name
getDisplayNameNotifyFirst(id, chatName, groupSubject) ==
    IF Falsy(id) THEN StrUnknown
    ELSE
    LET normalizedId == normalizeJid(id)
        contact == getContactById(normalizedId)
        isGroup == EndsWith(normalizedId, GROUPSUFFIX)
        override == Get(contactOverrides, normalizedId, UndefStr)
        name == ContactField(contact, "name")
        notify == ContactField(contact, "notify")
    IN  IF Truthy(override) THEN override
        ELSE IF ~isGroup /\ Truthy(notify) THEN notify
        ELSE IF Truthy(name) /\ ~looksLikeMemberList(name) THEN name
        ELSE IF isGroup THEN
            IF Truthy(groupSubject) /\ ~looksLikeMemberList(groupSubject) THEN groupSubject
            ELSE IF Truthy(chatName) /\ ~looksLikeMemberList(chatName)
                    /\ ~Includes(chatName, <<"@">>) THEN chatName
            ELSE StrGroup
        ELSE IF Truthy(chatName) /\ ~IsNumericName(chatName)
                /\ ~looksLikeMemberList(chatName) THEN chatName
        ELSE SplitFirst(normalizedId, <<"@">>)

getDisplayName(id, chatName, groupSubject) ==
    IF Falsy(id) THEN StrUnknown
    ELSE
    LET normalizedId == normalizeJid(id)
        contact == getContactById(normalizedId)
        isGroup == EndsWith(normalizedId, GROUPSUFFIX)
        override == Get(contactOverrides, normalizedId, UndefStr)
        name == ContactField(contact, "name")
        notify == ContactField(contact, "notify")
    IN  \* 0. manual overrides always win
        IF Truthy(override) THEN override
        \* 1. phone contacts name
        ELSE IF Truthy(name) /\ ~looksLikeMemberList(name) THEN name
        \* 2. push name (for individuals)
        ELSE IF ~isGroup /\ Truthy(notify) THEN notify
        \* 3. group subject
        ELSE IF isGroup THEN
            IF Truthy(groupSubject) /\ ~looksLikeMemberList(groupSubject) THEN groupSubject
            ELSE IF Truthy(chatName) /\ ~looksLikeMemberList(chatName)
                    /\ ~Includes(chatName, <<"@">>) THEN chatName
            ELSE StrGroup
        \* 4. non-numeric chatName for individuals
        ELSE IF Truthy(chatName) /\ ~IsNumericName(chatName)
                /\ ~looksLikeMemberList(chatName) THEN chatName
        \* 5. fallback to the id, stripped
        ELSE SplitFirst(normalizedId, <<"@">>)

----------------------------------------------------------------------------
(* State Store: contacts *)

\* a variant that stores the contact under its normalized id only
updateContactNormalizedOnly(next, c) ==
    LET normalizedId == normalizeJid(c.id)
    IN  With(next, normalizedId,
             With(Spread(Get(next, normalizedId, EmptyObj), c), "id", normalizedId))

\* one iteration of the loop of updateContacts
updateContact(next, c) ==
    LET normalizedId == normalizeJid(c.id)
        n1 == With(next, normalizedId,
                   With(Spread(Get(next, normalizedId, EmptyObj), c), "id", normalizedId))
    IN  With(n1, c.id, With(Spread(Get(n1, c.id, EmptyObj), c), "id", c.id))

RECURSIVE updateContactsFrom(_, _, _)
updateContactsFrom(next, newContacts, i) ==
    IF i > Len(newContacts) THEN next
    ELSE updateContactsFrom(updateContact(next, newContacts[i]), newContacts, i + 1)

updateContacts(prev, newContacts) == updateContactsFrom(prev, newContacts, 1)

----------------------------------------------------------------------------
(* State Store: chats *)

\* a groupMetadata value: <<>> is undefined, <<m>> the metadata object m
UndefMeta == <<>>

\* v || 0 for a number
NumOr0(v) == IF v = UndefNum THEN 0 ELSE v

\* a || b for two strings
StrOr(a, b) == IF Truthy(a) THEN a ELSE b

\* a || b for two numbers
NumOr(a, b) == IF a # UndefNum /\ a # 0 THEN a ELSE b

\* prev.findIndex(c => c.id === chatId), 1-based; 0 for -1
FindIndex(list, chatId) ==
    LET hits == {i \in 1..Len(list) : list[i].id = chatId}
    IN  IF hits = {} THEN 0 ELSE CHOOSE i \in hits : \A j \in hits : i <= j

\* prev.filter(c => c.id !== chatId)
RECURSIVE FilterOut(_, _)
FilterOut(list, chatId) ==
    IF list = <<>> THEN <<>>
    ELSE IF Head(list).id = chatId THEN FilterOut(Tail(list), chatId)
    ELSE <<Head(list)>> \o FilterOut(Tail(list), chatId)

\* the sort key of (a, b) => (b.timestamp || 0) - (a.timestamp || 0)
TsKey(c) == NumOr0(Get(c, "timestamp", UndefNum))

\* Array.prototype.sort is stable: an element goes behind every element whose
\* key is not smaller
InsertDesc(sorted, e) ==
    LET k == Cardinality({i \in 1..Len(sorted) : TsKey(sorted[i]) >= TsKey(e)})
    IN  SubSeq(sorted, 1, k) \o <<e>> \o SubSeq(sorted, k + 1, Len(sorted))

RECURSIVE SortFrom(_, _, _)
SortFrom(sorted, list, i) ==
    IF i > Len(list) THEN sorted
    ELSE SortFrom(InsertDesc(sorted, list[i]), list, i + 1)

\* list.sort((a, b) => (b.timestamp || 0) - (a.timestamp || 0))
SortByTimestampDesc(list) == SortFrom(<<>>, list, 1)

\* the name rule of an update of an existing chat (App.tsx:193-202)
MergeName(existing, update, updated, isGroup) ==
    LET uname == Get(update, "name", UndefStr)
        ename == Get(existing, "name", UndefStr)
    IN  IF isGroup /\ Truthy(uname)
           /\ Get(update, "groupMetadata", UndefMeta) = UndefMeta
           /\ Get(update, "isGroup", UndefBool) # "true"
        THEN IF ~looksLikeMemberList(uname)
             THEN With(updated, "name", StrOr(ename, uname))
             ELSE updated
        ELSE IF ~isGroup \/ ~looksLikeMemberList(uname)
             THEN With(updated, "name", StrOr(uname, ename))
             ELSE updated

\* the object literal of a chat that is not in the list yet (App.tsx:211-219)
NewChat(chatId, update, isGroup, now) ==
    Spread([id |-> chatId,
            name |-> Get(update, "name", UndefStr),
            lastMessage |-> StrOr(Get(update, "lastMessage", UndefStr), <<>>),
            unreadCount |-> NumOr(Get(update, "unreadCount", UndefNum), 0),
            isGroup |-> IF isGroup THEN "true" ELSE "false",
            timestamp |-> NumOr(Get(update, "timestamp", UndefNum), now)],
           update)

\* a variant that re-sorts by timestamp after every update, promotion included
updateChatListAlwaysSort(prev, chatId, update, now) ==
    LET index == FindIndex(prev, chatId)
        isGroup == EndsWith(chatId, GROUPSUFFIX)
    IN  IF index # 0
        THEN LET existing == prev[index]
                 updated == MergeName(existing, update, Spread(existing, update), isGroup)
             IN  SortByTimestampDesc([prev EXCEPT ![index] = updated])
        ELSE SortByTimestampDesc(<<NewChat(chatId, update, isGroup, now)>> \o prev)

\* a variant that adds the unread count of the update to the stored one
updateChatListAddUnread(prev, chatId, update, now) ==
    LET index == FindIndex(prev, chatId)
        isGroup == EndsWith(chatId, GROUPSUFFIX)
    IN  IF index # 0
        THEN LET existing == prev[index]
                 merged == MergeName(existing, update, Spread(existing, update), isGroup)
                 updated == IF "unreadCount" \in DOMAIN update
                            THEN With(merged, "unreadCount",
                                      NumOr0(Get(existing, "unreadCount", UndefNum))
                                      + NumOr0(update.unreadCount))
                            ELSE merged
             IN  IF Truthy(Get(update, "lastMessage", UndefStr))
                 THEN <<updated>> \o FilterOut(prev, chatId)
                 ELSE SortByTimestampDesc([prev EXCEPT ![index] = updated])
        ELSE SortByTimestampDesc(<<NewChat(chatId, update, isGroup, now)>> \o prev)

\* the updater updateChatList hands to setChats; now is Math.floor(Date.now() / 1000)
updateChatList(prev, chatId, update, now) ==
    LET index == FindIndex(prev, chatId)
        isGroup == EndsWith(chatId, GROUPSUFFIX)
    IN  IF index # 0
        THEN LET existing == prev[index]
                 updated == MergeName(existing, update, Spread(existing, update), isGroup)
             IN  IF Truthy(Get(update, "lastMessage", UndefStr))
                 THEN <<updated>> \o FilterOut(prev, chatId)
                 ELSE SortByTimestampDesc([prev EXCEPT ![index] = updated])
        ELSE SortByTimestampDesc(<<NewChat(chatId, update, isGroup, now)>> \o prev)

----------------------------------------------------------------------------
(* Event Reconciler: the updaters the event handlers queue, in order *)

JsBool(b) == IF b THEN "true" ELSE "false"

\* the payload messaging-history.set and chats.set build for a chat c
HistoryUpdate(c) ==
    [name |-> StrOr(StrOr(Get(c, "name", UndefStr), Get(c, "subject", UndefStr)),
                    Get(c, "pushName", UndefStr)),
     unreadCount |-> Get(c, "unreadCount", UndefNum),
     isGroup |-> JsBool(EndsWith(c.id, GROUPSUFFIX)),
     timestamp |-> NumOr(Get(c, "conversationTimestamp", UndefNum),
                         Get(c, "timestamp", UndefNum))]

\* the payload chats.upsert builds for a chat c
UpsertUpdate(c) ==
    [name |-> StrOr(StrOr(Get(c, "name", UndefStr), Get(c, "subject", UndefStr)),
                    Get(c, "pushName", UndefStr)),
     isGroup |-> JsBool(EndsWith(c.id, GROUPSUFFIX)),
     timestamp |-> NumOr(Get(c, "conversationTimestamp", UndefNum),
                         Get(c, "timestamp", UndefNum))]

\* for (const c of newChats) updateChatList(c.id, { name, unreadCount, isGroup, timestamp })
RECURSIVE applyHistoryChats(_, _, _, _)
applyHistoryChats(list, newChats, i, now) ==
    IF i > Len(newChats) THEN list
    ELSE applyHistoryChats(
             updateChatList(list, newChats[i].id, HistoryUpdate(newChats[i]), now),
             newChats, i + 1, now)

\* for (const c of newChats) updateChatList(c.id, { name, isGroup, timestamp })
RECURSIVE applyUpsertChats(_, _, _, _)
applyUpsertChats(list, newChats, i, now) ==
    IF i > Len(newChats) THEN list
    ELSE applyUpsertChats(
             updateChatList(list, newChats[i].id, UpsertUpdate(newChats[i]), now),
             newChats, i + 1, now)

\* for (const u of updates) updateChatList(u.id, u)
RECURSIVE applyChatUpdates(_, _, _, _)
applyChatUpdates(list, updates, i, now) ==
    IF i > Len(updates) THEN list
    ELSE applyChatUpdates(updateChatList(list, updates[i].id, updates[i], now),
                          updates, i + 1, now)

\* the characters of a content tag, and of the tag without 'Message'
TagText(tag) ==
    CASE tag = "imageMessage" -> <<"i", "m", "a", "g", "e">>
      [] tag = "conversation" -> <<"c", "o", "n", "v", "e", "r", "s", "a", "t", "i", "o", "n">>
      [] tag = "extendedTextMessage" ->
             <<"e", "x", "t", "e", "n", "d", "e", "d", "T", "e", "x", "t">>
      [] OTHER -> <<"M", "e", "d", "i", "a">>

StrMedia == <<"[", "M", "e", "d", "i", "a", "]">>

\* formatMessage: <<>> is null, <<m>> the formatted message; in m, replyTo is
\* <<>> when undefined and <<r>> otherwise
formatMessage(msg) ==
    IF "message" \notin DOMAIN msg \/ DOMAIN msg.message = {} THEN <<>>
    ELSE
    LET content == msg.message
        msgType == CHOOSE k \in DOMAIN content : TRUE
        conversation == Get(content, "conversation", UndefStr)
        isExtended == "extendedTextMessage" \in DOMAIN content
        ext == content.extendedTextMessage
        hasQuote == Falsy(conversation) /\ isExtended /\ "contextInfo" \in DOMAIN ext
                    /\ "quotedMessage" \in DOMAIN ext.contextInfo
        quoted == ext.contextInfo.quotedMessage
        text == IF Truthy(conversation) THEN conversation
                ELSE IF isExtended THEN Get(ext, "text", UndefStr)
                ELSE <<"[">> \o TagText(msgType) \o <<"]">>
        base == [id |-> msg.key.id,
                 from |-> msg.key.remoteJid,
                 text |-> text,
                 timestamp |-> Get(msg, "messageTimestamp", UndefNum),
                 isMe |-> msg.key.fromMe,
                 raw |-> msg,
                 replyTo |-> <<>>]
    IN  IF hasQuote
        THEN <<Spread(base,
                 [replyTo |->
                     <<[text |-> StrOr(StrOr(Get(quoted, "conversation", UndefStr),
                                             IF "extendedTextMessage" \in DOMAIN quoted
                                             THEN Get(quoted.extendedTextMessage, "text", UndefStr)
                                             ELSE UndefStr),
                                       StrMedia),
                        participant |-> Get(ext.contextInfo, "participant", UndefStr)]>>])>>
        ELSE <<base>>

\* the retention of the message window: slice(-49), then the new message
WindowKeep == 49

\* a variant that keeps one message more: slice(-50), then the new message
appendMessageKeep50(prev, chatId, formatted) ==
    LET old == Get(prev, chatId, <<>>)
        kept == IF Len(old) > WindowKeep + 1
                THEN SubSeq(old, Len(old) - WindowKeep, Len(old))
                ELSE old
    IN  With(prev, chatId, Append(kept, formatted))

\* [...(prev[chatId] || []).slice(-49), formatted]
appendMessage(prev, chatId, formatted) ==
    LET old == Get(prev, chatId, <<>>)
        kept == IF Len(old) > WindowKeep
                THEN SubSeq(old, Len(old) - WindowKeep + 1, Len(old))
                ELSE old
    IN  With(prev, chatId, Append(kept, formatted))

\* prev.map(c => c.id === chatId ? { ...c, unreadCount: (c.unreadCount || 0) + 1 } : c)
incrementUnread(list, chatId) ==
    [i \in 1..Len(list) |->
        IF list[i].id = chatId
        THEN With(list[i], "unreadCount", NumOr0(Get(list[i], "unreadCount", UndefNum)) + 1)
        ELSE list[i]]

\* the store after one message of a messages.upsert batch of type 'notify';
\* st is [chats, contacts, messages]
handleMessage(st, msg, now) ==
    LET chatId == msg.key.remoteJid
        pushName == Get(msg, "pushName", UndefStr)
        contactId == StrOr(Get(msg.key, "participant", UndefStr), chatId)
        named == IF Truthy(pushName)
                 THEN [st EXCEPT
                          !.contacts = updateContacts(st.contacts,
                                           <<[id |-> contactId, notify |-> pushName]>>),
                          !.chats = updateChatList(st.chats, chatId,
                                                   [name |-> pushName], now)]
                 ELSE st
        formatted == formatMessage(msg)
        stored == [named EXCEPT
                        !.messages = appendMessage(named.messages, chatId, formatted[1]),
                        !.chats = updateChatList(named.chats, chatId,
                                      [lastMessage |-> formatted[1].text,
                                       timestamp |-> formatted[1].timestamp], now)]
    IN  IF Falsy(chatId) THEN st
        ELSE IF formatted = <<>> THEN named
        ELSE IF msg.key.fromMe = "true" THEN stored
        ELSE [stored EXCEPT !.chats = incrementUnread(stored.chats, chatId)]

RECURSIVE handleMessages(_, _, _, _)
handleMessages(st, msgs, i, now) ==
    IF i > Len(msgs) THEN st
    ELSE handleMessages(handleMessage(st, msgs[i], now), msgs, i + 1, now)

\* prev.map(c => c.id === id ? { ...c, presence: ... } : c)
setPresence(list, id, presence) ==
    [i \in 1..Len(list) |->
        IF list[i].id = id THEN With(list[i], "presence", presence) ELSE list[i]]

----------------------------------------------------------------------------
(* Command Interpreter: sendMessage, the submit handler of the input box *)

\* String.prototype.trim; the model's only white space is the space
RECURSIVE TrimStart(_)
TrimStart(s) ==
    IF s # <<>> /\ s[1] \in SpaceChars THEN TrimStart(Tail(s)) ELSE s

RECURSIVE TrimEnd(_)
TrimEnd(s) ==
    IF s # <<>> /\ s[Len(s)] \in SpaceChars THEN TrimEnd(SubSeq(s, 1, Len(s) - 1)) ELSE s

Trim(s) == TrimEnd(TrimStart(s))

\* String.prototype.split with a one-character separator
RECURSIVE Split(_, _)
Split(s, ch) ==
    LET i == IndexOf(s, <<ch>>)
    IN  IF i = 0 THEN <<s>>
        ELSE <<SubSeq(s, 1, i - 1)>> \o Split(SubSeq(s, i + 1, Len(s)), ch)

\* Array.prototype.join
RECURSIVE Join(_, _)
Join(parts, sep) ==
    IF parts = <<>> THEN <<>>
    ELSE IF Len(parts) = 1 THEN parts[1]
    ELSE parts[1] \o sep \o Join(Tail(parts), sep)

\* delete o[k]
Without(o, k) == [x \in DOMAIN o \ {k} |-> o[x]]

CmdSearch == <<"/", "s", "e", "a", "r", "c", "h", " ">>
CmdClear == <<"/", "c", "l", "e", "a", "r">>
CmdAlias == <<"/", "a", "l", "i", "a", "s", " ">>
CmdLogout == <<"/", "l", "o", "g", "o", "u", "t">>
CmdUnalias == <<"/", "u", "n", "a", "l", "i", "a", "s", " ">>
CmdSend == <<"/", "s", "e", "n", "d", " ">>
StrFileNotFound == <<"F", "i", "l", "e", " ", "n", "o", "t", " ", "f", "o", "u", "n", "d">>
StrSendFailed == <<"S", "e", "n", "d", " ", "f", "a", "i", "l", "e", "d", ":", " ",
                   "U", "n", "k", "n", "o", "w", "n", " ", "e", "r", "r", "o", "r">>

\* the letters of the image extensions, lower-cased as the flag i of the regex does
LowerChar(c) ==
    CASE c = "J" -> "j" [] c = "P" -> "p" [] c = "E" -> "e" [] c = "G" -> "g"
      [] c = "N" -> "n" [] c = "I" -> "i" [] c = "F" -> "f" [] OTHER -> c

ImageExts == {<<".", "j", "p", "g">>, <<".", "j", "p", "e", "g">>,
              <<".", "p", "n", "g">>, <<".", "g", "i", "f">>}

\* filePath.match(/\.(jpg|jpeg|png|gif)$/i)
IsImagePath(filePath) ==
    LET lower == [i \in 1..Len(filePath) |-> LowerChar(filePath[i])]
    IN  \E e \in ImageExts : EndsWith(lower, e)

\* a variant that keeps the jid as typed
overrideKeyAsTyped(number) ==
    IF Includes(number, <<"@">>) THEN number ELSE number \o CANON

\* the key /alias and /unalias use for a typed number or jid
overrideKey(number) ==
    LET jid == IF Includes(number, <<"@">>) THEN number ELSE number \o CANON
    IN  normalizeJid(jid)

\* the send path of sendMessage (App.tsx:537-562); env tells whether the file
\* exists and whether the transport accepts the call
sendPath(s, env) ==
    LET text == s.input
        failed == [s EXCEPT !.errorMsg = StrSendFailed, !.input = <<>>]
    IN  IF StartsWith(text, CmdSend)
        THEN LET filePath == Trim(ReplaceFirst(text, CmdSend, <<>>))
                 segments == Split(filePath, "/")
                 call == [call |-> "sendMessage", chatId |-> s.selectedChatId,
                          content |-> [kind |-> IF IsImagePath(filePath)
                                                THEN "image" ELSE "document",
                                       url |-> filePath,
                                       fileName |-> segments[Len(segments)]],
                          quoted |-> <<>>]
             IN  IF ~env.fileExists
                 THEN [s EXCEPT !.errorMsg = StrFileNotFound, !.input = <<>>]
                 ELSE IF env.sendOk
                 THEN [s EXCEPT !.outbox = Append(@, call), !.input = <<>>]
                 ELSE [failed EXCEPT !.outbox = Append(@, call)]
        ELSE LET call == [call |-> "sendMessage", chatId |-> s.selectedChatId,
                          content |-> [kind |-> "text", text |-> text],
                          quoted |-> IF s.replyingTo # <<>>
                                     THEN <<s.replyingTo[1].raw>> ELSE <<>>]
             IN  IF env.sendOk
                 THEN [s EXCEPT !.outbox = Append(@, call), !.replyingTo = <<>>,
                                !.input = <<>>]
                 ELSE [failed EXCEPT !.outbox = Append(@, call)]

\* sendMessage over the state s it reads and writes
sendMessage(s, env) ==
    IF Falsy(s.input) \/ ~s.client THEN s
    ELSE
    LET text == s.input
        s0 == [s EXCEPT !.errorMsg = UndefStr]
        parts == Split(Trim(ReplaceFirst(text, CmdAlias, <<>>)), " ")
        aliasNumber == parts[1]
        aliasName == Trim(Join(Tail(parts), <<" ">>))
        unaliasNumber == Trim(ReplaceFirst(text, CmdUnalias, <<>>))
    IN  IF StartsWith(text, CmdSearch)
        THEN [s0 EXCEPT !.searchQuery = Trim(ReplaceFirst(text, CmdSearch, <<>>)),
                        !.input = <<>>]
        ELSE IF text = CmdClear
        THEN [s0 EXCEPT !.dataFile = <<>>, !.chats = <<>>, !.contacts = EmptyObj,
                        !.messages = EmptyObj, !.syncProgress = 0, !.isSyncing = TRUE,
                        !.dirty = @ \cup {"chats", "contacts", "messages"}]
        ELSE IF StartsWith(text, CmdAlias) /\ Truthy(aliasNumber) /\ Truthy(aliasName)
        THEN [s0 EXCEPT !.contactOverrides =
                            With(@, overrideKey(aliasNumber), aliasName),
                        !.input = <<>>, !.dirty = @ \cup {"contactOverrides"}]
        ELSE IF text = CmdLogout
        THEN [s0 EXCEPT !.outbox = Append(@, [call |-> "logout"]),
                        !.dataFile = <<>>, !.overridesFile = <<>>, !.exited = TRUE]
        ELSE IF StartsWith(text, CmdUnalias) /\ Truthy(unaliasNumber)
        THEN [s0 EXCEPT !.contactOverrides = Without(@, overrideKey(unaliasNumber)),
                        !.input = <<>>, !.dirty = @ \cup {"contactOverrides"}]
        ELSE IF Falsy(s0.selectedChatId) THEN s0
        ELSE sendPath(s0, env)

----------------------------------------------------------------------------
(* Enumerated identifiers *)

Digits == {"1", "5"}

RECURSIVE StringsUpTo(_, _)
StringsUpTo(alphabet, n) ==
    IF n = 0 THEN {<<>>}
    ELSE LET shorter == StringsUpTo(alphabet, n - 1)
         IN  shorter \cup {Append(s, c) : s \in shorter, c \in alphabet}

LocalParts == StringsUpTo(Digits, MaxLocalLen)

RECURSIVE SuffixChains(_)
SuffixChains(n) ==
    IF n = 0 THEN {<<>>}
    ELSE LET shorter == SuffixChains(n - 1)
         IN  shorter \cup {c \o s : c \in shorter, s \in {LEGACY, CANON, GROUPSUFFIX}}

JidInputs == {p \o c : p \in LocalParts, c \in SuffixChains(MaxSuffixes)}

\* the identifiers of the peers of the model: one person known under the legacy
\* and the canonical form, a second person, and a group
JidLegacy1 == <<"1">> \o LEGACY
JidCanon1 == <<"1">> \o CANON
JidCanon5 == <<"5">> \o CANON
JidGroup == <<"1", "5">> \o GROUPSUFFIX

NameAl == <<"A", "l">>
NameBo == <<"B", "o">>
NameZed == <<"Z", "e", "d">>
NameGr == <<"G", "r">>
NameComma == <<"A", ",", "B">>
NameSemi == <<"A", ";", "B">>
NameDigits == <<"1", "5">>
NamePhone == <<"+", "1", " ", "(", "5", ")", "-", "1">>
NameWithAt == <<"a", "@", "b">>

\* an optional value: <<>> (the key is absent) or <<v>>
Opt(values) == {<<>>} \cup {<<v>> : v \in values}

\* {} when the option is absent, { k: v } otherwise
OptKey(k, opt) == IF opt = <<>> THEN EmptyObj ELSE [x \in {k} |-> opt[1]]

MkContact(id, nameOpt, notifyOpt) ==
    Spread(Spread([x \in {"id"} |-> id], OptKey("name", nameOpt)),
           OptKey("notify", notifyOpt))

ContactPayloads ==
    {MkContact(id, n, p) :
        id \in {JidLegacy1, JidCanon1, JidGroup},
        n \in Opt({NameAl, NameComma, NameSemi}),
        p \in Opt({NameBo})}

RECURSIVE ListsUpTo(_, _)
ListsUpTo(elems, n) ==
    IF n = 0 THEN {<<>>}
    ELSE LET shorter == ListsUpTo(elems, n - 1)
         IN  shorter \cup {Append(l, e) : l \in shorter, e \in elems}

----------------------------------------------------------------------------
(* Values of the variables a specification does not use *)

StoreEmpty ==
    /\ chats = <<>>
    /\ contacts = EmptyObj
    /\ messages = EmptyObj
    /\ contactOverrides = EmptyObj

\* the initial values of useState (App.tsx:79-97)
AppInit ==
    /\ client = FALSE
    /\ selectedChatId = UndefStr
    /\ input = <<>>
    /\ searchQuery = <<>>
    /\ replyingTo = <<>>
    /\ isSyncing = FALSE
    /\ syncProgress = 0
    /\ errorMsg = UndefStr
    /\ exited = FALSE
    /\ syncTimers = 0
    /\ outbox = <<>>
    /\ connected = FALSE
    /\ chatOffset = 0
    /\ focusedPane = "input"
    /\ selectedMessageIndex = -1
    /\ showMembers = FALSE
    /\ downloadingFile = UndefStr
    /\ crashed = FALSE
    /\ dirty = {}
    /\ fetches = <<>>
    /\ socket = "none"
    /\ reconnectTimers = 0
    /\ qrCodeString = UndefStr
    /\ inits = 0
    /\ closeLog = <<>>
    /\ persistAge = 0
    /\ sinceWrite = 0

\* a first start: neither file exists
DiskEmpty ==
    /\ dataFile = <<>>
    /\ overridesFile = <<>>

HistoryEmpty ==
    /\ last = [op |-> "init"]
    /\ prevChats = <<>>
    /\ prevContacts = EmptyObj
    /\ appendLog = EmptyObj
    /\ aliasLog = EmptyObj

FnIdle ==
    /\ fnIn = <<>>
    /\ fnOut = <<>>

----------------------------------------------------------------------------
(* SpecNorm: normalizeJid applied to an identifier, and again to its result *)

InitNorm ==
    /\ StoreEmpty
    /\ AppInit
    /\ DiskEmpty
    /\ HistoryEmpty
    /\ fnIn \in JidInputs
    /\ fnOut = <<>>

Normalize ==
    /\ Len(fnOut) = 0
    /\ fnOut' = <<normalizeJid(fnIn)>>
    /\ UNCHANGED <<fnIn, connVars, clockVars, storeVars, appVars, navVars, effectVars,
                   diskVars,
                   historyVars>>

NormalizeAgain ==
    /\ Len(fnOut) = 1
    /\ fnOut' = Append(fnOut, normalizeJid(fnOut[1]))
    /\ UNCHANGED <<fnIn, connVars, clockVars, storeVars, appVars, navVars, effectVars,
                   diskVars,
                   historyVars>>

NextNorm == Normalize \/ NormalizeAgain

SpecNorm == InitNorm /\ [][NextNorm]_vars

\* C1: normalize(normalize(x)) = normalize(x) for every identifier x, also
\* one that holds the legacy suffix more than once or both suffixes.
C1_NormalizeIdempotent ==
    Len(fnOut) = 2 => fnOut[2] = fnOut[1]

HasAt(s) == Includes(s, <<"@">>)

\* C2: for a local part p (no '@'), normalize(p@c.us) = normalize(p@s.whatsapp.net)
\* = p@s.whatsapp.net; an identifier that does not end with the legacy suffix
\* is returned unchanged.
C2_NormalizeMapsLegacy ==
    Len(fnOut) >= 1 =>
        /\ ~EndsWith(fnIn, LEGACY) => fnOut[1] = fnIn
        /\ \A p \in LocalParts :
               fnIn = p \o LEGACY =>
                   /\ fnOut[1] = p \o CANON
                   /\ fnOut[1] = normalizeJid(p \o CANON)

C2_Witness ==
    /\ fnIn = <<"1", "5">> \o LEGACY
    /\ fnOut = <<(<<"1", "5">> \o CANON)>>

----------------------------------------------------------------------------
(* SpecName: getDisplayName over the contact and override states the store   *)
(* operations produce                                                       *)

\* contact maps built by the store's own operation from the empty map
ContactMaps ==
    {updateContacts(EmptyObj, l) : l \in ListsUpTo(ContactPayloads, 1)}

OverrideMaps ==
    {EmptyObj} \cup {[x \in {overrideKey(j)} |-> NameZed] : j \in {JidLegacy1, JidGroup}}

NameArgs ==
    [id : {JidLegacy1, JidCanon1, JidGroup},
     chatName : {UndefStr, NameAl, NameDigits, NamePhone, NameComma, NameWithAt},
     groupSubject : {UndefStr, NameGr, NameSemi}]

InitName ==
    /\ chats = <<>>
    /\ messages = EmptyObj
    /\ AppInit
    /\ DiskEmpty
    /\ contacts \in ContactMaps
    /\ contactOverrides \in OverrideMaps
    /\ HistoryEmpty
    /\ fnIn \in NameArgs
    /\ fnOut = <<>>

Resolve ==
    /\ fnOut = <<>>
    /\ fnOut' = <<getDisplayName(fnIn.id, fnIn.chatName, fnIn.groupSubject)>>
    /\ UNCHANGED <<fnIn, connVars, clockVars, storeVars, appVars, navVars, effectVars,
                   diskVars,
                   historyVars>>

NextName == Resolve

SpecName == InitName /\ [][NextName]_vars

\* the value of the first applicable candidate of an ordered list
RECURSIVE FirstMatch(_, _)
FirstMatch(candidates, i) ==
    IF candidates[i].applies THEN candidates[i].value
    ELSE FirstMatch(candidates, i + 1)

MemberListShaped(s) == \E i \in 1..Len(s) : s[i] \in {",", ";"}

\* the six sources of a name, in the order of the claim
C3_Candidates(id, chatName, groupSubject) ==
    LET n == normalizeJid(id)
        group == EndsWith(n, GROUPSUFFIX)
        has == n \in DOMAIN contacts
        name == IF has /\ "name" \in DOMAIN contacts[n] THEN contacts[n].name ELSE UndefStr
        notify == IF has /\ "notify" \in DOMAIN contacts[n] THEN contacts[n].notify ELSE UndefStr
        given(x) == x # UndefStr /\ x # <<>>
    IN  << [applies |-> n \in DOMAIN contactOverrides,
            value |-> IF n \in DOMAIN contactOverrides THEN contactOverrides[n] ELSE <<>>],
           [applies |-> given(name) /\ ~MemberListShaped(name), value |-> name],
           [applies |-> ~group /\ given(notify), value |-> notify],
           [applies |-> group,
            value |-> IF given(groupSubject) /\ ~MemberListShaped(groupSubject)
                          THEN groupSubject
                      ELSE IF given(chatName) /\ ~MemberListShaped(chatName)
                              /\ ~(\E i \in 1..Len(chatName) : chatName[i] = "@")
                          THEN chatName
                      ELSE StrGroup],
           [applies |-> ~group /\ given(chatName) /\ ~MemberListShaped(chatName)
                        /\ \E i \in 1..Len(chatName) :
                               chatName[i] \notin DigitChars \cup {" ", "+", "(", ")", "-"},
            value |-> chatName],
           [applies |-> TRUE, value |-> SplitFirst(n, <<"@">>)] >>

\* C3: getDisplayName returns the first match of: override, contact name that is
\* not member-list-shaped, notify (individuals), subject / chat name / 'Group'
\* (groups), non-numeric chat name (individuals), local part of the id.
C3_ResolveOrder ==
    fnOut # <<>> =>
        fnOut[1] = FirstMatch(C3_Candidates(fnIn.id, fnIn.chatName, fnIn.groupSubject), 1)

\* a group with a member-list contact name, a notify, a member-list subject and
\* a chat name holding '@' resolves to 'Group'
C3_Witness ==
    /\ fnIn = [id |-> JidGroup, chatName |-> NameWithAt, groupSubject |-> NameSemi]
    /\ contactOverrides = EmptyObj
    /\ JidGroup \in DOMAIN contacts
    /\ Get(contacts[JidGroup], "name", UndefStr) = NameComma
    /\ Get(contacts[JidGroup], "notify", UndefStr) = NameBo
    /\ fnOut = <<StrGroup>>

----------------------------------------------------------------------------
(* SpecChats: updateChatList applied to a chat list the program can hold,    *)
(* and applied a second time with the same arguments                        *)

MsgHi == <<"h", "i">>

\* Math.floor(Date.now() / 1000): the clock is ahead of every event timestamp
Now == MaxTs + 1

GroupMeta == [subject |-> NameGr, participants |-> <<JidCanon1, JidCanon5>>]

MkUpdate(nameOpt, lastOpt, unreadOpt, tsOpt, isGroupOpt, metaOpt) ==
    Spread(Spread(Spread(Spread(Spread(
        OptKey("name", nameOpt),
        OptKey("lastMessage", lastOpt)),
        OptKey("unreadCount", unreadOpt)),
        OptKey("timestamp", tsOpt)),
        OptKey("isGroup", isGroupOpt)),
        OptKey("groupMetadata", metaOpt))

\* partial Chat payloads: every field present or not; a name or a timestamp may
\* also be present with the value undefined, as the handlers of the chat events
\* build them (App.tsx:294-299)
ChatUpdates ==
    {MkUpdate(n, l, u, t, g, m) :
        n \in Opt({UndefStr, NameAl, NameComma}),
        l \in Opt({MsgHi}),
        u \in Opt({1}),
        t \in Opt({UndefNum} \cup 1..MaxTs),
        g \in Opt({"true"}),
        m \in Opt({<<GroupMeta>>})}

\* the chats updated: an individual and the group
StoreChatIds == {JidCanon1, JidGroup}

RECURSIVE ApplyUpdates(_, _, _)
ApplyUpdates(list, calls, i) ==
    IF i > Len(calls) THEN list
    ELSE ApplyUpdates(updateChatList(list, calls[i].id, calls[i].update, Now), calls, i + 1)

\* the payload chats.upsert builds for a chat (App.tsx:324-328)
SeedUpdates(id) ==
    {[name |-> n,
      isGroup |-> IF EndsWith(id, GROUPSUFFIX) THEN "true" ELSE "false",
      timestamp |-> t] :
        n \in IF EndsWith(id, GROUPSUFFIX) THEN {UndefStr, NameGr} ELSE {UndefStr},
        t \in 1..MaxTs}

SeedCalls(id) == {<<>>} \cup {<<[id |-> id, update |-> u]>> : u \in SeedUpdates(id)}

\* with or without one chat promoted by a lastMessage that keeps its timestamp
Promotions(list) ==
    {list} \cup {updateChatList(list, list[i].id, [lastMessage |-> MsgHi], Now) :
                    i \in 1..Len(list)}

\* chat lists built by the store's own operation from the empty list
InitChatLists ==
    UNION {Promotions(ApplyUpdates(<<>>, a \o b \o c, 1)) :
              a \in SeedCalls(JidCanon1), b \in SeedCalls(JidCanon5), c \in SeedCalls(JidGroup)}

InitChats ==
    /\ chats \in InitChatLists
    /\ contacts = EmptyObj
    /\ messages = EmptyObj
    /\ contactOverrides = EmptyObj
    /\ AppInit
    /\ DiskEmpty
    /\ HistoryEmpty
    /\ FnIdle

UpsertChat(chatId, update) ==
    /\ last.op = "init"
    /\ chats' = updateChatList(chats, chatId, update, Now)
    /\ prevChats' = chats
    /\ last' = [op |-> "updateChatList", id |-> chatId, update |-> update, times |-> 1]
    /\ UNCHANGED <<contacts, messages, contactOverrides, appVars, navVars, effectVars,
                   diskVars, fnVars, connVars, clockVars, prevContacts, appendLog,
                   aliasLog>>

UpsertChatAgain ==
    /\ last.op = "updateChatList"
    /\ last.times = 1
    /\ chats' = updateChatList(chats, last.id, last.update, Now)
    /\ prevChats' = chats
    /\ last' = [last EXCEPT !.times = 2]
    /\ UNCHANGED <<contacts, messages, contactOverrides, appVars, navVars, effectVars,
                   diskVars, fnVars, connVars, clockVars, prevContacts, appendLog,
                   aliasLog>>

NextChats ==
    \/ \E chatId \in StoreChatIds, update \in ChatUpdates : UpsertChat(chatId, update)
    \/ UpsertChatAgain

SpecChats == InitChats /\ [][NextChats]_vars

ChatEntry(list, chatId) == list[FindIndex(list, chatId)]

\* C6: the entry of a chat after the same payload was applied twice in a row is
\* the entry after it was applied once, whether the chat existed or not.
C6_UpsertChatIdempotent ==
    (last.op = "updateChatList" /\ last.times = 2) =>
        ChatEntry(chats, last.id) = ChatEntry(prevChats, last.id)

\* a payload with every field, applied twice to a group that was in the list
C6_Witness ==
    /\ last.op = "updateChatList"
    /\ last.times = 2
    /\ last.id = JidGroup
    /\ DOMAIN last.update =
           {"name", "lastMessage", "unreadCount", "timestamp", "isGroup", "groupMetadata"}
    /\ Len(chats) = 3
    /\ ChatEntry(chats, JidGroup) = ChatEntry(prevChats, JidGroup)

\* C9: a non-empty lastMessage upserted on a chat of the list that is not first
\* puts the chat first, whatever the timestamps are.
C9_LastMessagePromotes ==
    (/\ last.op = "updateChatList"
     /\ Truthy(Get(last.update, "lastMessage", UndefStr))
     /\ FindIndex(prevChats, last.id) > 1) =>
        chats[1].id = last.id

\* the last of three chats, with the oldest timestamp, is promoted
C9_Witness ==
    /\ last.op = "updateChatList"
    /\ last.times = 1
    /\ Len(prevChats) = 3
    /\ FindIndex(prevChats, last.id) = 3
    /\ Get(last.update, "lastMessage", UndefStr) = MsgHi
    /\ Get(last.update, "timestamp", UndefNum) = 1
    /\ TsKey(prevChats[1]) = 2
    /\ chats[1].id = last.id
    /\ TsKey(chats[1]) < TsKey(chats[2])

\* the ids of a list other than chatId, in list order
OtherIds(list, chatId) ==
    LET rest == FilterOut(list, chatId)
    IN  [i \in 1..Len(rest) |-> rest[i].id]

\* C10: an update without lastMessage leaves the relative order of the other
\* chats as it was.
C10_UpdateKeepsOrderOfOthers ==
    (/\ last.op = "updateChatList"
     /\ Falsy(Get(last.update, "lastMessage", UndefStr))) =>
        OtherIds(chats, last.id) = OtherIds(prevChats, last.id)

----------------------------------------------------------------------------
(* SpecContacts: updateContacts applied to a contact map the program can     *)
(* hold, and applied a second time with the same list                       *)

\* the contacts of an event: the person under either form of its id
ContactUpdates ==
    {MkContact(id, n, p) :
        id \in {JidLegacy1, JidCanon1},
        n \in Opt({NameAl, NameComma}),
        p \in Opt({NameBo})}

ContactLists == ListsUpTo(ContactUpdates, MaxContactList)

InitContacts ==
    /\ chats = <<>>
    /\ contacts \in ContactMaps
    /\ messages = EmptyObj
    /\ contactOverrides = EmptyObj
    /\ AppInit
    /\ DiskEmpty
    /\ HistoryEmpty
    /\ FnIdle

UpsertContacts(list) ==
    /\ last.op = "init"
    /\ contacts' = updateContacts(contacts, list)
    /\ prevContacts' = contacts
    /\ last' = [op |-> "updateContacts", list |-> list, times |-> 1]
    /\ UNCHANGED <<chats, messages, contactOverrides, appVars, navVars, effectVars,
                   diskVars, fnVars, connVars, clockVars, prevChats, appendLog, aliasLog>>

UpsertContactsAgain ==
    /\ last.op = "updateContacts"
    /\ last.times = 1
    /\ contacts' = updateContacts(contacts, last.list)
    /\ prevContacts' = contacts
    /\ last' = [last EXCEPT !.times = 2]
    /\ UNCHANGED <<chats, messages, contactOverrides, appVars, navVars, effectVars,
                   diskVars, fnVars, connVars, clockVars, prevChats, appendLog, aliasLog>>

NextContacts ==
    \/ \E list \in ContactLists : UpsertContacts(list)
    \/ UpsertContactsAgain

SpecContacts == InitContacts /\ [][NextContacts]_vars

\* the keys a contact of a list is stored under
StoredUnder(c) == {c.id, normalizeJid(c.id)}

\* a later contact of the list writes field f of the entry under key
WrittenLater(list, i, key, f) ==
    \E j \in (i + 1)..Len(list) : key \in StoredUnder(list[j]) /\ f \in DOMAIN list[j]

\* C7: after updateContacts(list) each contact of the list is stored under its
\* original and its normalized id, fields the payload does not carry are kept,
\* and the same list applied again leaves the contact map as it is.
C7_UpsertContacts ==
    last.op = "updateContacts" =>
        /\ \A i \in 1..Len(last.list) : \A key \in StoredUnder(last.list[i]) :
               /\ key \in DOMAIN contacts
               /\ contacts[key].id = key
               /\ \A f \in DOMAIN last.list[i] \ {"id"} :
                      \/ WrittenLater(last.list, i, key, f)
                      \/ /\ f \in DOMAIN contacts[key]
                         /\ contacts[key][f] = last.list[i][f]
        /\ \A key \in DOMAIN prevContacts :
               /\ key \in DOMAIN contacts
               /\ \A f \in DOMAIN prevContacts[key] :
                      \/ WrittenLater(last.list, 0, key, f)
                      \/ /\ f \in DOMAIN contacts[key]
                         /\ contacts[key][f] = prevContacts[key][f]
        /\ last.times = 2 => contacts = prevContacts

\* a notify given under the legacy id twice, to a map that held a name under the
\* canonical id: both entries exist, the name is kept
C7_Witness ==
    /\ last.op = "updateContacts"
    /\ last.times = 2
    /\ last.list = <<[id |-> JidLegacy1, notify |-> NameBo]>>
    /\ DOMAIN contacts = {JidLegacy1, JidCanon1}
    /\ contacts[JidCanon1] = [id |-> JidCanon1, name |-> NameAl, notify |-> NameBo]
    /\ contacts[JidLegacy1] = [id |-> JidLegacy1, notify |-> NameBo]

----------------------------------------------------------------------------
(* Navigation State Machine: the projections and the key handler of useInput *)

CHATS_PER_PAGE == 15

UpperChars == <<"A", "B", "C", "D", "E", "F", "G", "H", "I", "J", "K", "L", "M",
                "N", "O", "P", "Q", "R", "S", "T", "U", "V", "W", "X", "Y", "Z">>
LowerChars == <<"a", "b", "c", "d", "e", "f", "g", "h", "i", "j", "k", "l", "m",
                "n", "o", "p", "q", "r", "s", "t", "u", "v", "w", "x", "y", "z">>

\* String.prototype.toLowerCase
toLowerCase(str) ==
    [i \in 1..Len(str) |->
        IF \E k \in 1..Len(UpperChars) : UpperChars[k] = str[i]
        THEN LowerChars[CHOOSE k \in 1..Len(UpperChars) : UpperChars[k] = str[i]]
        ELSE str[i]]

\* the predicate of filteredChats
matchesSearch(chat, query) ==
    \/ Falsy(query)
    \/ Includes(toLowerCase(getDisplayName(chat.id, Get(chat, "name", UndefStr), UndefStr)),
                toLowerCase(query))

\* chats.filter(chat => ...)
RECURSIVE filterChats(_, _)
filterChats(list, query) ==
    IF list = <<>> THEN <<>>
    ELSE IF matchesSearch(Head(list), query)
    THEN <<Head(list)>> \o filterChats(Tail(list), query)
    ELSE filterChats(Tail(list), query)

\* a variant without the search
filteredChatsAll == chats

\* the chats the list pane shows
filteredChats == filterChats(chats, searchQuery)

\* messages[selectedChatId] || [] for a selection, [] without one
currentMessages ==
    IF Truthy(selectedChatId) THEN Get(messages, selectedChatId, <<>>) ELSE <<>>

\* chats.find(c => c.id === selectedChatId): <<>> is undefined
selectedChat ==
    LET i == FindIndex(chats, selectedChatId)
    IN  IF i = 0 THEN <<>> ELSE <<chats[i]>>

\* the panes tab cycles through
PaneOrder == IF showMembers THEN <<"input", "chats", "messages", "members">>
             ELSE <<"input", "chats", "messages">>

\* order.indexOf(focusedPane), 0-based, -1 when the pane is not in the order
PaneIndex ==
    IF \E i \in 1..Len(PaneOrder) : PaneOrder[i] = focusedPane
    THEN (CHOOSE i \in 1..Len(PaneOrder) : PaneOrder[i] = focusedPane) - 1
    ELSE -1

\* a variant that returns its first argument
MaxFirst(a, b) == a

Max(a, b) == IF a > b THEN a ELSE b

----------------------------------------------------------------------------
(* Handlers: one action per event handler, timer and user operation *)

\* the application is mounted: it neither exited nor died of an exception
Running == ~exited /\ ~crashed

\* init() resolved and setClient(wa) ran (App.tsx:386)
ClientReady ==
    /\ Running
    /\ ~client
    /\ client' = TRUE
    /\ dirty' = dirty \cup {"client"}
    /\ UNCHANGED <<storeVars, selectedChatId, input, searchQuery, replyingTo, isSyncing,
                   syncProgress, errorMsg, exited, syncTimers, outbox, navVars, fetches,
                   diskVars, fnVars, connVars, clockVars, historyVars>>

\* Math.min(prev + 0.2, 0.9), in percent
Min(a, b) == IF a < b THEN a ELSE b

MessagingHistorySet(ev, now) ==
    /\ Running
    /\ isSyncing' = TRUE
    /\ syncProgress' = IF ev.isLatest THEN 100 ELSE Min(syncProgress + 20, 90)
    /\ chats' = applyHistoryChats(chats, ev.chats, 1, now)
    /\ contacts' = updateContacts(contacts, ev.contacts)
    /\ syncTimers' = IF ev.isLatest THEN syncTimers + 1 ELSE syncTimers
    /\ dirty' = dirty \cup {"contacts"} \cup (IF ev.chats # <<>> THEN {"chats"} ELSE {})
    /\ UNCHANGED <<messages, contactOverrides, client, selectedChatId, input, searchQuery,
                   replyingTo, errorMsg, exited, outbox, navVars, fetches, diskVars,
                   fnVars, connVars, clockVars, historyVars>>

\* the timer of messaging-history.set fires after 2 s
SyncTimeout ==
    /\ Running
    /\ syncTimers > 0
    /\ syncTimers' = syncTimers - 1
    /\ isSyncing' = FALSE
    /\ syncProgress' = 0
    /\ UNCHANGED <<storeVars, client, selectedChatId, input, searchQuery, replyingTo,
                   errorMsg, exited, outbox, navVars, effectVars, diskVars, fnVars,
                   connVars, clockVars, historyVars>>

\* what the handlers that only write chats leave alone; every call of setChats
\* hands the effects a new array
ChatsOnly(wrote) ==
    /\ dirty' = IF wrote THEN dirty \cup {"chats"} ELSE dirty
    /\ UNCHANGED <<contacts, messages, contactOverrides, appVars, navVars, fetches,
                   diskVars, fnVars, connVars, clockVars, historyVars>>

\* what the handlers that only write contacts leave alone
ContactsOnly ==
    /\ dirty' = dirty \cup {"contacts"}
    /\ UNCHANGED <<chats, messages, contactOverrides, appVars, navVars, fetches,
                   diskVars, fnVars, connVars, clockVars, historyVars>>

ChatsSet(ev, now) ==
    /\ Running
    /\ chats' = applyHistoryChats(chats, ev.chats, 1, now)
    /\ ChatsOnly(ev.chats # <<>>)

ChatsUpsert(newChats, now) ==
    /\ Running
    /\ chats' = applyUpsertChats(chats, newChats, 1, now)
    /\ ChatsOnly(newChats # <<>>)

ChatsUpdate(updates, now) ==
    /\ Running
    /\ chats' = applyChatUpdates(chats, updates, 1, now)
    /\ ChatsOnly(updates # <<>>)

ContactsSet(ev) ==
    /\ Running
    /\ contacts' = updateContacts(contacts, ev.contacts)
    /\ ContactsOnly

ContactsUpsert(newContacts) ==
    /\ Running
    /\ contacts' = updateContacts(contacts, newContacts)
    /\ ContactsOnly

ContactsUpdate(updates) ==
    /\ Running
    /\ contacts' = updateContacts(contacts, updates)
    /\ ContactsOnly

\* presence.update; the listener is registered once the client is set; ev.presence
\* is <<>> for an empty presences object, <<p>> for its first value
PresenceUpdate(ev) ==
    /\ Running
    /\ client
    /\ chats' = IF ev.presence # <<>>
                THEN setPresence(chats, ev.id, ev.presence[1].lastKnownPresence)
                ELSE chats
    /\ ChatsOnly(ev.presence # <<>>)

\* the state sendMessage reads and writes
\* DisconnectReason of the transport library: loggedOut, and the other reasons
\* a close carries (connection lost, connection closed, restart required); a
\* close without lastDisconnect.error has the status code undefined
loggedOut == 401
CloseCodes == {loggedOut, 408, 428, 515, UndefNum}

\* a variant that reconnects after every close
shouldReconnectAlways(statusCode) == TRUE

\* statusCode !== DisconnectReason.loggedOut (whatsapp.ts:174)
shouldReconnect(statusCode) == statusCode # loggedOut

AppState ==
    [input |-> input, client |-> client, chats |-> chats, contacts |-> contacts,
     messages |-> messages, contactOverrides |-> contactOverrides,
     searchQuery |-> searchQuery, selectedChatId |-> selectedChatId,
     replyingTo |-> replyingTo, isSyncing |-> isSyncing, syncProgress |-> syncProgress,
     errorMsg |-> errorMsg, exited |-> exited, outbox |-> outbox,
     dataFile |-> dataFile, overridesFile |-> overridesFile, dirty |-> dirty]

\* the user leaves text in the input box and presses return; aliasLog is left
\* to the operation that submits
Submit(text, env) ==
    /\ Running
    /\ LET s == sendMessage([AppState EXCEPT !.input = text], env)
       IN  /\ input' = s.input
           /\ chats' = s.chats
           /\ contacts' = s.contacts
           /\ messages' = s.messages
           /\ contactOverrides' = s.contactOverrides
           /\ searchQuery' = s.searchQuery
           /\ replyingTo' = s.replyingTo
           /\ isSyncing' = s.isSyncing
           /\ syncProgress' = s.syncProgress
           /\ errorMsg' = s.errorMsg
           /\ exited' = s.exited
           /\ outbox' = s.outbox
           /\ dataFile' = s.dataFile
           /\ overridesFile' = s.overridesFile
           /\ dirty' = s.dirty
           /\ appendLog' = IF s.messages = messages THEN appendLog ELSE EmptyObj
           \* client.logout() ends a socket that is not closed yet with the reason
           \* loggedOut, and the connection.update handler sees that close
           /\ LET closes == s.exited /\ ~exited /\ socket \in {"connecting", "open"}
              IN  /\ socket' = IF closes THEN "closed" ELSE socket
                  /\ closeLog' = IF closes THEN Append(closeLog, loggedOut) ELSE closeLog
                  /\ reconnectTimers' = IF closes /\ shouldReconnect(loggedOut)
                                        THEN reconnectTimers + 1 ELSE reconnectTimers
    /\ UNCHANGED <<client, selectedChatId, syncTimers, navVars, fetches, fnVars,
                   qrCodeString, inits, clockVars, last, prevChats, prevContacts>>

----------------------------------------------------------------------------
(* The key handler of useInput (App.tsx:409-475) and the text input *)

CharKeys == {"k", "j", "r", "x", "m", "o"}

\* the media message the key o opens: scanning from the newest message, the
\* first whose text is bracketed; "throws" when a text on the way is undefined
RECURSIVE lastMedia(_, _)
lastMedia(list, i) ==
    IF i = 0 THEN [found |-> FALSE, throws |-> FALSE]
    ELSE IF list[i].text = UndefStr THEN [found |-> FALSE, throws |-> TRUE]
    ELSE IF StartsWith(list[i].text, <<"[">>) /\ EndsWith(list[i].text, <<"]">>)
    THEN [found |-> TRUE, throws |-> FALSE, message |-> list[i]]
    ELSE lastMedia(list, i - 1)

KeyPress(key) ==
    /\ Running
    /\ LET esc == key = "escape"
           tab == key = "tab"
           isUp == key \in {"upArrow", "k"}
           isDown == key \in {"downArrow", "j"}
           shown == filteredChats
           index == FindIndex(shown, selectedChatId) - 1
           inChats == ~tab /\ focusedPane \in {"chats", "input"}
           goUp == inChats /\ isUp /\ index > 0
           goDown == inChats /\ isDown /\ index < Len(shown) - 1
           count == Len(currentMessages)
           inMessages == ~tab /\ focusedPane = "messages" /\ count > 0
           picked == selectedMessageIndex # -1
           inRange == selectedMessageIndex < count
           reply == inMessages /\ key = "r" /\ picked
           react == inMessages /\ key = "x" /\ picked /\ client
           toggle == /\ ~tab
                     /\ key = "m"
                     /\ selectedChat # <<>>
                     /\ Get(selectedChat[1], "isGroup", UndefBool) = "true"
           open == ~tab /\ key = "o" /\ Truthy(selectedChatId) /\ client
           media == lastMedia(currentMessages, count)
           throws == (react /\ ~inRange) \/ (open /\ media.throws)
       IN  /\ crashed' = throws
           /\ replyingTo' =
                 IF esc /\ replyingTo # <<>> THEN <<>>
                 ELSE IF reply
                 THEN (IF inRange THEN <<currentMessages[selectedMessageIndex + 1]>>
                       ELSE <<>>)
                 ELSE replyingTo
           /\ showMembers' =
                 IF esc /\ replyingTo = <<>> /\ showMembers THEN FALSE
                 ELSE IF toggle /\ ~throws THEN ~showMembers
                 ELSE showMembers
           /\ searchQuery' =
                 IF esc /\ replyingTo = <<>> /\ ~showMembers /\ Truthy(searchQuery)
                 THEN <<>> ELSE searchQuery
           /\ exited' = (exited \/ (esc /\ replyingTo = <<>> /\ ~showMembers
                                       /\ Falsy(searchQuery)))
           /\ focusedPane' =
                 IF tab THEN PaneOrder[((PaneIndex + 1) % Len(PaneOrder)) + 1]
                 ELSE IF toggle /\ ~throws
                 THEN (IF showMembers THEN "input" ELSE "members")
                 ELSE IF reply THEN "input"
                 ELSE focusedPane
           /\ selectedChatId' =
                 IF goUp THEN shown[index].id
                 ELSE IF goDown THEN shown[index + 2].id
                 ELSE selectedChatId
           /\ chatOffset' =
                 IF goUp /\ index - 1 < chatOffset THEN index - 1
                 ELSE IF goDown /\ index + 1 >= chatOffset + CHATS_PER_PAGE
                 THEN index + 1 - CHATS_PER_PAGE + 1
                 ELSE chatOffset
           /\ selectedMessageIndex' =
                 IF inMessages /\ isUp
                 THEN (IF ~picked THEN count - 1 ELSE Max(0, selectedMessageIndex - 1))
                 ELSE IF inMessages /\ isDown
                 THEN (IF ~picked THEN count - 1
                       ELSE Min(count - 1, selectedMessageIndex + 1))
                 ELSE selectedMessageIndex
           /\ outbox' =
                 IF react /\ inRange
                 THEN Append(outbox,
                             [call |-> "sendMessage", chatId |-> selectedChatId,
                              content |-> [kind |-> "react",
                                           key |-> currentMessages[selectedMessageIndex + 1]
                                                       .raw.key],
                              quoted |-> <<>>])
                 ELSE IF open /\ ~throws /\ media.found
                 THEN Append(outbox, [call |-> "downloadMedia",
                                      message |-> media.message.raw])
                 ELSE outbox
           /\ downloadingFile' =
                 IF open /\ ~throws /\ media.found THEN media.message.text
                 ELSE downloadingFile
           /\ dirty' = IF goUp \/ goDown THEN dirty \cup {"selectedChatId"} ELSE dirty
    \* the text input has the focus of the input pane and takes the characters
    /\ input' = IF key \in CharKeys /\ focusedPane = "input"
                THEN Append(input, key) ELSE input
    /\ UNCHANGED <<chats, contacts, messages, contactOverrides, client, isSyncing,
                   syncProgress, errorMsg, syncTimers, connected, fetches, diskVars,
                   fnVars, connVars, clockVars, historyVars>>

----------------------------------------------------------------------------
(* The effects of the selection (App.tsx:255-268, 390-398) and the connection *)

\* onConnected: the transport reports the connection open (App.tsx:288)
ConnectionOpen ==
    /\ Running
    /\ connected' = TRUE
    /\ dirty' = IF connected THEN dirty ELSE dirty \cup {"connected"}
    /\ UNCHANGED <<storeVars, appVars, chatOffset, focusedPane, selectedMessageIndex,
                   showMembers, downloadingFile, crashed, fetches, diskVars, fnVars,
                   connVars, clockVars, historyVars>>

\* the group metadata effect has a call to issue: a client, a selected group,
\* and no metadata on its chat
needsMetadata ==
    /\ client
    /\ Truthy(selectedChatId)
    /\ EndsWith(selectedChatId, GROUPSUFFIX)
    /\ \/ selectedChat = <<>>
       \/ Get(selectedChat[1], "groupMetadata", UndefMeta) = <<>>

\* prev.map(c => c.id === selectedChatId ? { ...c, unreadCount: 0 } : c)
clearUnread(list, id) ==
    [i \in 1..Len(list) |->
        IF list[i].id = id THEN With(list[i], "unreadCount", 0) ELSE list[i]]

\* the dependencies of the persistence effect (App.tsx:278)
StoreDeps == {"chats", "contacts", "messages", "contactOverrides"}

\* React runs, after the render that follows a handler, the effects whose
\* dependencies were set: first the group metadata effect, then mark-read
RunEffects ==
    /\ Running
    /\ dirty # {}
    /\ LET fetch == dirty \cap {"client", "selectedChatId", "chats"} # {} /\ needsMetadata
           markRead == /\ dirty \cap {"selectedChatId", "client", "connected"} # {}
                       /\ Truthy(selectedChatId)
                       /\ client
                       /\ connected
           fetchCall == [call |-> "groupMetadata", chatId |-> selectedChatId]
           readCall == [call |-> "readMessages", chatId |-> selectedChatId]
       IN  /\ fetches' = IF fetch THEN Append(fetches, selectedChatId) ELSE fetches
           /\ outbox' = (IF fetch THEN Append(outbox, fetchCall) ELSE outbox)
                        \o (IF markRead THEN <<readCall>> ELSE <<>>)
           /\ chats' = IF markRead THEN clearUnread(chats, selectedChatId) ELSE chats
           /\ selectedMessageIndex' = IF markRead THEN -1 ELSE selectedMessageIndex
           /\ replyingTo' = IF markRead THEN <<>> ELSE replyingTo
           /\ errorMsg' = IF markRead THEN UndefStr ELSE errorMsg
           /\ dirty' = IF markRead THEN {"chats"} ELSE {}
    \* the persistence effect clears its interval and sets a new one
    /\ persistAge' = IF dirty \cap StoreDeps # {} THEN 0 ELSE persistAge
    /\ UNCHANGED <<contacts, messages, contactOverrides, client, selectedChatId, input,
                   searchQuery, isSyncing, syncProgress, exited, syncTimers, connected,
                   chatOffset, focusedPane, showMembers, downloadingFile, crashed,
                   diskVars, fnVars, connVars, sinceWrite, historyVars>>

\* fetches without its i-th entry
DropFetch(i) == SubSeq(fetches, 1, i - 1) \o SubSeq(fetches, i + 1, Len(fetches))

\* the i-th groupMetadata call resolves with metadata (App.tsx:261-263)
MetadataResolved(i, metadata, now) ==
    /\ Running
    /\ i \in 1..Len(fetches)
    /\ chats' = updateChatList(chats, fetches[i],
                               [groupMetadata |-> <<metadata>>,
                                name |-> Get(metadata, "subject", UndefStr)], now)
    /\ fetches' = DropFetch(i)
    /\ dirty' = dirty \cup {"chats"}
    /\ UNCHANGED <<contacts, messages, contactOverrides, appVars, navVars, diskVars,
                   fnVars, connVars, clockVars, historyVars>>

\* the i-th groupMetadata call is rejected; the handler only logs (App.tsx:263-267)
MetadataRejected(i) ==
    /\ Running
    /\ i \in 1..Len(fetches)
    /\ fetches' = DropFetch(i)
    /\ UNCHANGED <<storeVars, appVars, navVars, dirty, diskVars, fnVars, connVars,
                   clockVars, historyVars>>

----------------------------------------------------------------------------
(* The messages.upsert handler (App.tsx:350-385) *)

\* the messages of a batch that reach setMessages, added to the log of their chat
RECURSIVE logBatch(_, _, _)
logBatch(log, msgs, i) ==
    IF i > Len(msgs) THEN log
    ELSE LET chatId == msgs[i].key.remoteJid
             formatted == formatMessage(msgs[i])
         IN  logBatch(IF Truthy(chatId) /\ formatted # <<>>
                      THEN With(log, chatId, Append(Get(log, chatId, <<>>), formatted[1]))
                      ELSE log,
                      msgs, i + 1)

\* a message of the batch reaches updateChatList
WritesChats(msg) ==
    /\ Truthy(msg.key.remoteJid)
    /\ Truthy(Get(msg, "pushName", UndefStr)) \/ formatMessage(msg) # <<>>

\* a message of the batch reaches the setter of the state dep
Writes(dep, msg) ==
    CASE dep = "chats" -> WritesChats(msg)
      [] dep = "contacts" ->
            Truthy(msg.key.remoteJid) /\ Truthy(Get(msg, "pushName", UndefStr))
      [] dep = "messages" -> Truthy(msg.key.remoteJid) /\ formatMessage(msg) # <<>>
      [] OTHER -> FALSE

MessagesUpsert(m, now) ==
    /\ Running
    /\ LET st == IF m.type = "notify"
                 THEN handleMessages([chats |-> chats, contacts |-> contacts,
                                      messages |-> messages], m.messages, 1, now)
                 ELSE [chats |-> chats, contacts |-> contacts, messages |-> messages]
       IN  /\ chats' = st.chats
           /\ contacts' = st.contacts
           /\ messages' = st.messages
    /\ appendLog' = IF m.type = "notify" THEN logBatch(appendLog, m.messages, 1)
                    ELSE appendLog
    /\ dirty' = IF m.type = "notify"
                THEN dirty \cup {dep \in StoreDeps :
                                    \E i \in 1..Len(m.messages) : Writes(dep, m.messages[i])}
                ELSE dirty
    /\ UNCHANGED <<contactOverrides, appVars, navVars, fetches, diskVars, fnVars,
                   connVars, clockVars, last, prevChats,
                   prevContacts, aliasLog>>

----------------------------------------------------------------------------
(* SpecWindow: a long run of incoming messages in two chats *)

MaxAppends == 60

Logged(c) == Len(Get(appendLog, c, <<>>))

\* a text message of a peer in the individual chat; its id is its rank in the chat
PeerText(n) ==
    [key |-> [remoteJid |-> JidCanon1, id |-> n, fromMe |-> "false"],
     message |-> [conversation |-> MsgHi],
     messageTimestamp |-> 1]

\* an image this account posted to the group from another device
OwnImage(n) ==
    [key |-> [remoteJid |-> JidGroup, id |-> n, fromMe |-> "true",
              participant |-> JidCanon5],
     pushName |-> NameBo,
     message |-> [imageMessage |-> EmptyObj],
     messageTimestamp |-> 2]

\* a protocol message without content
NoContent ==
    [key |-> [remoteJid |-> JidCanon1, id |-> 0, fromMe |-> "false"],
     messageTimestamp |-> 1]

WindowBatches ==
    LET a == Logged(JidCanon1)
        g == Logged(JidGroup)
    IN  {[type |-> "notify", messages |-> <<PeerText(a + 1)>>],
         [type |-> "notify", messages |-> <<OwnImage(g + 1)>>],
         [type |-> "notify", messages |-> <<PeerText(a + 1), NoContent, PeerText(a + 2)>>],
         [type |-> "notify", messages |-> <<NoContent>>],
         [type |-> "append", messages |-> <<PeerText(a + 1)>>]}

InitWindow ==
    /\ StoreEmpty
    /\ AppInit
    /\ DiskEmpty
    /\ HistoryEmpty
    /\ FnIdle

NextWindow ==
    \E m \in WindowBatches :
        /\ Logged(JidCanon1) + Logged(JidGroup) + Len(m.messages) <= MaxAppends
        /\ MessagesUpsert(m, Now)

SpecWindow == InitWindow /\ [][NextWindow]_vars

LastN(s, n) == SubSeq(s, Len(s) - n + 1, Len(s))

\* C8: every message window holds at most 50 messages, and after n messages
\* were appended to a chat its window is exactly the last min(n, 50) of them,
\* in the order they were appended
C8_WindowHoldsLast50 ==
    /\ \A c \in DOMAIN messages : Len(messages[c]) <= 50
    /\ \A c \in DOMAIN appendLog :
          /\ c \in DOMAIN messages
          /\ messages[c] = LastN(appendLog[c], Min(Len(appendLog[c]), 50))

\* 60 messages were appended to one chat and its window is messages 11 to 60
C8_Witness ==
    /\ Logged(JidCanon1) = 60
    /\ Len(messages[JidCanon1]) = 50
    /\ \A i \in 1..50 : messages[JidCanon1][i].id = i + 10

----------------------------------------------------------------------------
(* SpecAlias: alias commands of the user between the events of the transport *)

MaxAliasMessages == 1

NameTwoWords == NameAl \o <<" ">> \o NameBo

\* what the user types to alias and to unalias an id
AliasText(id, name) == CmdAlias \o id \o <<" ">> \o name
UnaliasText(id) == CmdUnalias \o id

\* the number of a peer given as a bare number or as a jid
NumberOf(id) == SplitFirst(id, <<"@">>)

\* the ways the user writes the peer, each with the name it gives: as bare
\* number, as legacy jid and as canonical jid
AliasCommands ==
    {<<<<"1">>, NameZed>>, <<JidLegacy1, NameTwoWords>>, <<JidCanon1, NameZed>>}

AliasIds == {c[1] : c \in AliasCommands}

AnyEnv == [fileExists |-> TRUE, sendOk |-> TRUE]

\* the messages that reached a window so far, cleared windows included
Arrived == Logged(JidCanon1) + Logged(JidGroup)

\* the alias command; the log keeps how many messages had arrived by then
EnterAlias(id, name) ==
    /\ Submit(AliasText(id, name), AnyEnv)
    /\ aliasLog' = IF client
                   THEN With(aliasLog, NumberOf(id),
                             [state |-> "aliased", name |-> name, arrived |-> Arrived])
                   ELSE aliasLog

\* the unalias command; the log keeps how many messages arrived under the alias
EnterUnalias(id) ==
    /\ Submit(UnaliasText(id), AnyEnv)
    /\ aliasLog' = IF client /\ NumberOf(id) \in DOMAIN aliasLog
                   THEN With(aliasLog, NumberOf(id),
                             [state |-> "unaliased", name |-> <<>>,
                              arrived |-> IF aliasLog[NumberOf(id)].state = "aliased"
                                          THEN Arrived - aliasLog[NumberOf(id)].arrived
                                          ELSE aliasLog[NumberOf(id)].arrived])
                   ELSE aliasLog

\* any other text: /clear, an alias command without a name
EnterText(text) ==
    /\ Submit(text, AnyEnv)
    /\ UNCHANGED aliasLog

AliasTexts == {CmdClear}

\* a member-list-shaped name and a notify for the first peer, under its legacy id
AliasContactsShaped == <<MkContact(JidLegacy1, <<NameComma>>, <<NameBo>>)>>

\* a name of the address book for the first peer, under its canonical id
AliasContactsNamed == <<MkContact(JidCanon1, <<NameAl>>, <<>>)>>

AliasChat == [id |-> JidCanon1, name |-> NameComma, conversationTimestamp |-> 1]

\* a text of the first peer that carries its push name
PeerTextNamed(n) == With(PeerText(n), "pushName", NameBo)

AliasBatches ==
    {[type |-> "notify", messages |-> <<PeerTextNamed(Logged(JidCanon1) + 1)>>],
     [type |-> "notify", messages |-> <<OwnImage(Logged(JidGroup) + 1)>>]}

InitAlias ==
    /\ StoreEmpty
    /\ AppInit
    /\ DiskEmpty
    /\ HistoryEmpty
    /\ FnIdle

\* the input box is rendered once the connection is open (App.tsx:574), which
\* comes after init() returned and the client was set (whatsapp.ts:141-186)
NextAlias ==
    \/ ClientReady
    \/ client /\ \E c \in AliasCommands : EnterAlias(c[1], c[2])
    \/ client /\ \E id \in AliasIds : EnterUnalias(id)
    \/ client /\ \E text \in AliasTexts : EnterText(text)
    \/ ContactsSet([contacts |-> AliasContactsShaped])
    \/ ContactsUpsert(AliasContactsNamed)
    \/ ContactsUpdate(AliasContactsShaped)
    \/ /\ syncTimers = 0
       /\ MessagingHistorySet([chats |-> <<AliasChat>>, contacts |-> <<>>,
                               isLatest |-> TRUE], Now)
    \/ SyncTimeout
    \/ ChatsSet([chats |-> <<AliasChat>>], Now)
    \/ ChatsUpsert(<<AliasChat>>, Now)
    \/ ChatsUpdate(<<AliasChat>>, Now)
    \/ \E m \in AliasBatches :
          /\ Logged(JidCanon1) + Logged(JidGroup) < MaxAliasMessages
          /\ MessagesUpsert(m, Now)

SpecAlias == InitAlias /\ [][NextAlias]_vars

AliasHints == {UndefStr, NameAl, NameBo, NameComma, NameDigits}

\* C4: while a number is aliased, its legacy and canonical jid resolve to the
\* alias whatever hints the caller passes and whatever events arrived; once it
\* is unaliased they resolve to what the sources after the override give, which
\* is notify for a member-list-shaped contact name with a valid notify
C4_AliasHolds ==
    \A num \in DOMAIN aliasLog : \A id \in {num \o LEGACY, num \o CANON} :
        \A hint \in AliasHints :
            LET resolved == getDisplayName(id, hint, UndefStr)
                key == num \o CANON
                known == key \in DOMAIN contacts
                shaped == /\ known
                          /\ "name" \in DOMAIN contacts[key]
                          /\ MemberListShaped(contacts[key].name)
                          /\ "notify" \in DOMAIN contacts[key]
                          /\ contacts[key].notify \notin {UndefStr, <<>>}
            IN  /\ aliasLog[num].state = "aliased" => resolved = aliasLog[num].name
                /\ aliasLog[num].state = "unaliased" =>
                      /\ resolved = FirstMatch(C3_Candidates(id, hint, UndefStr), 2)
                      /\ shaped => resolved = contacts[key].notify

\* the peer was aliased, a message with its push name arrived, it was unaliased,
\* and next to a member-list contact name it resolves to its notify
C4_Witness ==
    /\ <<"1">> \in DOMAIN aliasLog
    /\ aliasLog[<<"1">>].state = "unaliased"
    /\ aliasLog[<<"1">>].arrived > 0
    /\ JidCanon1 \in DOMAIN contacts
    /\ Get(contacts[JidCanon1], "name", UndefStr) = NameComma
    /\ Get(contacts[JidCanon1], "notify", UndefStr) = NameBo
    /\ getDisplayName(JidLegacy1, NameComma, UndefStr) = NameBo
    /\ getDisplayName(JidCanon1, NameDigits, UndefStr) = NameBo

\* C24: a contact id present in the contact map is present in every later state
C24_ContactsNeverDeleted ==
    [][\A id \in DOMAIN contacts : id \in DOMAIN contacts']_vars

----------------------------------------------------------------------------
(* SpecScenario: a first history batch, then the contact list *)

\* the name the chat list shows for a chat (App.tsx:619-620)
displayNameOf(chat) ==
    LET meta == Get(chat, "groupMetadata", UndefMeta)
    IN  getDisplayName(chat.id, Get(chat, "name", UndefStr),
                       IF meta = <<>> THEN UndefStr ELSE Get(meta[1], "subject", UndefStr))

JidLegacy5 == <<"5">> \o LEGACY

NameCommaSpace == <<"A", "l", ",", " ", "B", "o">>

\* the chats of the history batch: the first individual, the second individual,
\* both without a name of their own (absent or a phone number), and the group
\* under the comma-joined names of its members
ScenarioFirst ==
    {Spread([id |-> id], Spread(OptKey("name", n), OptKey("conversationTimestamp", t))) :
        id \in {JidLegacy1, JidCanon1}, n \in Opt({NameDigits}), t \in Opt({2})}

ScenarioSecond ==
    {Spread([id |-> id], Spread(OptKey("name", n), OptKey("unreadCount", u))) :
        id \in {JidLegacy5, JidCanon5}, n \in Opt({NamePhone}), u \in Opt({1})}

ScenarioGroup ==
    {[id |-> JidGroup, name |-> n, conversationTimestamp |-> 1] :
        n \in {NameComma, NameCommaSpace}}

\* the three chats in the orders a batch may list them
ScenarioChats ==
    UNION {{<<a, b, g>>, <<g, a, b>>, <<b, g, a>>} :
              a \in ScenarioFirst, b \in ScenarioSecond, g \in ScenarioGroup}

\* the contact list: a notify for the first individual, under either form of id
ScenarioContacts ==
    {<<MkContact(id, n, <<NameBo>>)>> : id \in {JidLegacy1, JidCanon1}, n \in Opt({NameComma})}

InitScenario ==
    /\ StoreEmpty
    /\ AppInit
    /\ DiskEmpty
    /\ HistoryEmpty
    /\ fnIn \in [chats : ScenarioChats, contacts : ScenarioContacts, isLatest : BOOLEAN]
    /\ fnOut = <<>>

HistoryArrived == chats # <<>>
ContactsArrived == contacts # EmptyObj

NextScenario ==
    \/ /\ ~HistoryArrived
       /\ MessagingHistorySet([chats |-> fnIn.chats, contacts |-> <<>>,
                               isLatest |-> fnIn.isLatest], Now)
    \/ /\ HistoryArrived
       /\ ~ContactsArrived
       /\ ContactsSet([contacts |-> fnIn.contacts])
    \/ SyncTimeout

SpecScenario == InitScenario /\ [][NextScenario]_vars

ScenarioNames == {displayNameOf(chats[i]) : i \in 1..Len(chats)}

\* C5: after the history batch with two individual chats and a group chat named
\* by a comma-joined member list, and then the contact list with a notify for
\* the first individual, and no overrides: the first individual shows under its
\* notify, the group under 'Group', the second individual under the local part
\* of its id
C5_ScenarioNames ==
    (HistoryArrived /\ ContactsArrived) =>
        /\ Len(chats) = 3
        /\ \A i \in 1..Len(chats) :
              displayNameOf(chats[i]) =
                  IF chats[i].id \in {JidLegacy1, JidCanon1} THEN NameBo
                  ELSE IF chats[i].id = JidGroup THEN <<"G", "r", "o", "u", "p">>
                  ELSE <<"5">>

\* both events arrived; the first individual came under its legacy id with a
\* phone number for a name and its contact has a member-list-shaped name
C5_Witness ==
    /\ HistoryArrived
    /\ ContactsArrived
    /\ contactOverrides = EmptyObj
    /\ \E i \in 1..Len(chats) :
          /\ chats[i].id = JidLegacy1
          /\ chats[i].name = NameDigits
          /\ displayNameOf(chats[i]) = NameBo
    /\ Get(contacts[JidCanon1], "name", UndefStr) = NameComma
    /\ ScenarioNames = {NameBo, <<"G", "r", "o", "u", "p">>, <<"5">>}

----------------------------------------------------------------------------
(* The persisted records and the start of App (App.tsx:52-97) *)

\* the content of a file: text that does not parse, or a JSON value under the
\* name of its type; an object is a function from its keys to JSON values
Unparseable == [unparseable |-> <<>>]
JNull == [null |-> <<>>]
\* a number, by its digits
JNumber(digits) == [number |-> digits]
JString(str) == [string |-> str]
JArray(items) == [array |-> items]
JObject(fields) == [object |-> fields]
JType(v) == CHOOSE type \in DOMAIN v : TRUE
JValue(v) == v[JType(v)]

\* the record the persistence interval writes (App.tsx:273)
Snapshot(c, k, m) ==
    JObject([chats |-> JArray(c), contacts |-> JObject(k), messages |-> JObject(m)])

\* v is falsy for || : undefined, null, 0, ''
JFalsy(v) ==
    \/ v = <<>>
    \/ JType(v[1]) = "null"
    \/ JType(v[1]) = "number" /\ JValue(v[1]) = <<"0">>
    \/ JType(v[1]) = "string" /\ JValue(v[1]) = <<>>

\* loadInitialData, loadContactOverrides: {} when the file is absent or
\* readJsonSync throws, the parsed value otherwise
loadJson(file) ==
    IF file = <<>> THEN JObject(EmptyObj)
    ELSE IF JType(file[1]) = "unparseable" THEN JObject(EmptyObj)
    ELSE file[1]

\* initialData.key: <<>> for undefined, <<v>> for a value; reading a property
\* of null throws
JProperty(data, key) ==
    IF JType(data) = "object" /\ key \in DOMAIN JValue(data) THEN <<JValue(data)[key]>>
    ELSE <<>>

\* the value of useState(x || fallback) as the store holds it: an array without
\* entries stands for an object without keys
JInitial(v, fallback) == IF JFalsy(v) THEN fallback ELSE JValue(v[1])

\* the first render of App: the two records are loaded, the state is set from
\* them and filteredChats is computed
Start ==
    LET initialData == loadJson(dataFile)
        initialOverrides == loadJson(overridesFile)
        chatsField == JProperty(initialData, "chats")
        throws == \/ JType(initialData) = "null"
                  \* chats.filter is not a function
                  \/ ~JFalsy(chatsField) /\ JType(chatsField[1]) # "array"
    IN  /\ Running
        /\ inits = 0
        /\ ~client
        /\ crashed' = throws
        /\ chats' = IF throws THEN chats ELSE JInitial(chatsField, <<>>)
        /\ contacts' = IF throws THEN contacts
                       ELSE JInitial(JProperty(initialData, "contacts"), EmptyObj)
        /\ messages' = IF throws THEN messages
                       ELSE JInitial(JProperty(initialData, "messages"), EmptyObj)
        /\ contactOverrides' = IF throws THEN contactOverrides
                               ELSE JValue(initialOverrides)
        /\ UNCHANGED <<appVars, connected, chatOffset, focusedPane, selectedMessageIndex,
                       showMembers, downloadingFile, effectVars, diskVars, fnVars,
                       historyVars, connVars, clockVars>>

\* the 15000 ms of the persistence interval, in ticks
PersistTicks == 2

\* the persistence interval fires (App.tsx:270-278): both records are written
\* from the state of the last render; unmounting clears the interval
Persist ==
    /\ Running
    /\ persistAge = PersistTicks
    /\ dataFile' = <<Snapshot(chats, contacts, messages)>>
    /\ overridesFile' = <<JObject(contactOverrides)>>
    /\ persistAge' = 0
    /\ sinceWrite' = 0
    /\ UNCHANGED <<storeVars, appVars, navVars, effectVars, fnVars, historyVars, connVars>>

\* one tick of time passes; an interval that is due fires first
Tick ==
    /\ Running => persistAge < PersistTicks
    /\ persistAge' = IF Running THEN persistAge + 1 ELSE persistAge
    /\ sinceWrite' = sinceWrite + 1
    /\ UNCHANGED <<storeVars, appVars, navVars, effectVars, diskVars, fnVars, historyVars,
                   connVars>>

----------------------------------------------------------------------------
(* SpecNav: keys and searches over a restored chat list *)

MaxCalls == 2
MaxTyped == 1

\* the chats of the snapshot, by the store's own operation: newest first
NavSaved ==
    <<[id |-> JidCanon1, name |-> NameAl, conversationTimestamp |-> 3],
      [id |-> JidCanon5, name |-> NameBo, conversationTimestamp |-> 2],
      [id |-> JidGroup, name |-> NameGr, conversationTimestamp |-> 1]>>

NavChatPayloads == {NavSaved[i] : i \in 1..Len(NavSaved)}

NavChatLists ==
    {applyHistoryChats(<<>>, SubSeq(NavSaved, 1, n), 1, Now) : n \in 0..Len(NavSaved)}

\* searches that keep the second chat only, and no chat
NavSearches == {CmdSearch \o <<"o">>, CmdSearch \o <<"Z">>, CmdSearch}

NavKeys == {"upArrow", "downArrow", "k", "j", "tab"}

\* the program restarted on a snapshot of its chats
InitNav ==
    /\ chats \in NavChatLists
    /\ contacts = EmptyObj
    /\ messages = EmptyObj
    /\ contactOverrides = EmptyObj
    /\ AppInit
    /\ dataFile = <<Snapshot(chats, contacts, messages)>>
    /\ overridesFile = <<>>
    /\ HistoryEmpty
    /\ FnIdle

\* a handler runs once the effects of the previous render have run
Settled == dirty = {}

\* the keys reach useInput from the start; the input box is rendered once the
\* connection is open (App.tsx:574)
NextNav ==
    \/ Settled /\ ClientReady
    \/ Settled /\ client /\ ConnectionOpen
    \/ RunEffects
    \/ /\ Settled
       /\ Len(outbox) < MaxCalls
       /\ \E key \in NavKeys :
             /\ key \in CharKeys /\ focusedPane = "input" => Len(input) < MaxTyped
             /\ KeyPress(key)
    \/ /\ Settled
       /\ connected
       /\ focusedPane = "input"
       /\ \E text \in NavSearches : Submit(text, AnyEnv) /\ UNCHANGED aliasLog

SpecNav == InitNav /\ [][NextNav]_vars

\* the ids of the chats whose resolved name contains the search query, in the
\* order of the chat list
RECURSIVE C11_Shown(_)
C11_Shown(list) ==
    IF list = <<>> THEN <<>>
    ELSE LET c == Head(list)
             resolved == toLowerCase(getDisplayName(c.id, Get(c, "name", UndefStr),
                                                    UndefStr))
             query == toLowerCase(searchQuery)
         IN  (IF searchQuery = <<>>
                 \/ \E i \in 1..Len(resolved) :
                       /\ i + Len(query) - 1 <= Len(resolved)
                       /\ SubSeq(resolved, i, i + Len(query) - 1) = query
              THEN <<c.id>> ELSE <<>>) \o C11_Shown(Tail(list))

\* C11: an up or down press leaves selectedChatId unchanged or moves it to an
\* entry of the filtered list; up on the first entry, down on the last entry and
\* any press over an empty filtered list leave it unchanged and raise no error
C11_SelectionInsideFilter ==
    [][\A key \in {"upArrow", "downArrow", "k", "j"} :
          KeyPress(key) =>
              LET shown == C11_Shown(chats)
              IN  /\ ~crashed'
                  /\ \/ selectedChatId' = selectedChatId
                     \/ \E i \in 1..Len(shown) : shown[i] = selectedChatId'
                  /\ (key \in {"upArrow", "k"} /\ shown # <<>>
                        /\ shown[1] = selectedChatId)
                         => selectedChatId' = selectedChatId
                  /\ (key \in {"downArrow", "j"} /\ shown # <<>>
                        /\ shown[Len(shown)] = selectedChatId)
                         => selectedChatId' = selectedChatId
                  /\ shown = <<>> => selectedChatId' = selectedChatId]_vars

\* a search keeps one of three chats and that chat is the selected one; a
\* second search keeps none while the selection stays
C11_Witness ==
    /\ Len(chats) = 3
    /\ selectedChatId = JidCanon5
    /\ searchQuery = <<"Z">>
    /\ filteredChats = <<>>
    /\ ~crashed

\* the number of mark-read calls handed to the transport
C16_Reads(calls) ==
    Cardinality({i \in 1..Len(calls) : calls[i].call = "readMessages"})

\* C16: the effects that run after a change of the selected chat set
\* selectedMessageIndex to -1, clear the reply target, zero the unread count of
\* the selected chat and issue exactly one mark-read call, connected or not;
\* without a change of the selection they issue none
C16_SelectionChangeMarksRead ==
    [][RunEffects =>
          IF "selectedChatId" \in dirty
          THEN /\ selectedMessageIndex' = -1
               /\ replyingTo' = <<>>
               /\ \A i \in 1..Len(chats') :
                     chats'[i].id = selectedChatId
                         => Get(chats'[i], "unreadCount", UndefNum) = 0
               /\ C16_Reads(outbox') = C16_Reads(outbox) + 1
          ELSE C16_Reads(outbox') = C16_Reads(outbox)]_vars

----------------------------------------------------------------------------
(* SpecFetch: the group metadata calls of a selected group *)

FetchMetadata == [id |-> JidGroup, subject |-> NameZed, participants |-> <<>>]

FetchPresence ==
    [id |-> JidGroup, presence |-> <<[lastKnownPresence |-> <<"c">>]>>]

NextFetch ==
    \/ Settled /\ ClientReady
    \/ Settled /\ client /\ ConnectionOpen
    \/ RunEffects
    \/ /\ Settled
       /\ Len(outbox) < MaxCalls
       /\ \E key \in {"upArrow", "downArrow"} : KeyPress(key)
    \/ /\ Settled
       /\ Len(outbox) < MaxCalls
       /\ PresenceUpdate(FetchPresence)
    \/ /\ Settled
       /\ \E i \in 1..Len(fetches) : MetadataResolved(i, FetchMetadata, Now)
    \/ /\ Settled
       /\ \E i \in 1..Len(fetches) : MetadataRejected(i)

SpecFetch == InitNav /\ [][NextFetch]_vars

\* C12: between the selection of a group without cached metadata and the
\* resolution of its fetch no further fetch for that chat is issued: no two
\* fetches of one chat are in flight
C12_OneFetchInFlight ==
    \A i, j \in 1..Len(fetches) : i # j => fetches[i] # fetches[j]

\* C13: a fetch that resolves while another chat is selected leaves the chat
\* list as it is
C13_StaleResultDiscarded ==
    [][\A i \in 1..Len(fetches) :
          (MetadataResolved(i, FetchMetadata, Now) /\ fetches[i] # selectedChatId)
              => chats' = chats]_vars

----------------------------------------------------------------------------
(* SpecStore: chat events that name one peer in both forms, and a group *)

MaxStoreMessages == 1

StoreIds == {JidLegacy1, JidCanon1}

\* the chats messaging-history.set, chats.set and chats.upsert carry: the peer
\* in legacy and in canonical form, the group, names with and without a comma
StoreHistory == {[id |-> JidLegacy1, name |-> NameAl, conversationTimestamp |-> 1]}

StoreSet == {[id |-> JidGroup, name |-> NameGr, conversationTimestamp |-> 1]}

StoreUpserts ==
    {[id |-> JidCanon1, name |-> NameComma, conversationTimestamp |-> 1],
     [id |-> JidGroup, name |-> NameComma, conversationTimestamp |-> 1]}

\* payloads of chats.update: a name, an isGroup value of their own
StoreUpdates ==
    {[id |-> JidGroup, name |-> NameSemi],
     [id |-> JidGroup, name |-> NameSemi, isGroup |-> "true"],
     [id |-> JidGroup, isGroup |-> "false"],
     [id |-> JidCanon1, isGroup |-> "true"]}

\* a text of the peer, in the chat under id
StoreText(id) ==
    [key |-> [remoteJid |-> id, id |-> 1, fromMe |-> "false"],
     message |-> [conversation |-> MsgHi],
     messageTimestamp |-> 2]

StoreLogged == Logged(JidLegacy1) + Logged(JidCanon1)

InitStore ==
    /\ StoreEmpty
    /\ AppInit
    /\ DiskEmpty
    /\ HistoryEmpty
    /\ FnIdle

NextStore ==
    \/ \E c \in StoreHistory :
          /\ syncProgress = 0
          /\ MessagingHistorySet([chats |-> <<c>>, contacts |-> <<>>, isLatest |-> FALSE],
                                 Now)
    \/ \E c \in StoreSet : ChatsSet([chats |-> <<c>>], Now)
    \/ \E c \in StoreUpserts : ChatsUpsert(<<c>>, Now)
    \/ \E u \in StoreUpdates : ChatsUpdate(<<u>>, Now)
    \/ \E id \in StoreIds :
          /\ StoreLogged < MaxStoreMessages
          /\ MessagesUpsert([type |-> "notify", messages |-> <<StoreText(id)>>], Now)

SpecStore == InitStore /\ [][NextStore]_vars

\* C14: no two entries of the chat list have ids with the same normalized form
C14_OneEntryPerPeer ==
    \A i, j \in 1..Len(chats) :
        i # j => normalizeJid(chats[i].id) # normalizeJid(chats[j].id)

\* C19: no chat entry has a name that contains ',' or ';'
C19_NoMemberListName ==
    \A i \in 1..Len(chats) :
        LET name == Get(chats[i], "name", UndefStr)
        IN  name = UndefStr
            \/ \A k \in 1..Len(name) : name[k] \notin {",", ";"}

\* C20: the isGroup flag of every chat entry equals 'the id ends with @g.us'
C20_IsGroupFromSuffix ==
    \A i \in 1..Len(chats) :
        LET id == chats[i].id
            suffixed == /\ Len(id) >= 5
                        /\ SubSeq(id, Len(id) - 4, Len(id)) = <<"@", "g", ".", "u", "s">>
        IN  Get(chats[i], "isGroup", UndefBool) = (IF suffixed THEN "true" ELSE "false")

----------------------------------------------------------------------------
(* SpecEscape: escape with a search, the members overlay, or neither *)

EscapeKeys == {"downArrow", "m", "escape"}

NextEscape ==
    \/ Settled /\ ClientReady
    \/ Settled /\ client /\ ConnectionOpen
    \/ RunEffects
    \/ /\ Settled
       /\ \E key \in EscapeKeys :
             /\ key \in CharKeys /\ focusedPane = "input" => Len(input) < MaxTyped
             /\ key = "downArrow" => Len(outbox) < MaxCalls
             /\ KeyPress(key)
    \/ /\ Settled
       /\ connected
       /\ focusedPane = "input"
       /\ Submit(CmdSearch \o <<"o">>, AnyEnv)
       /\ UNCHANGED aliasLog

SpecEscape == InitNav /\ [][NextEscape]_vars

\* C15: an escape press does exactly one thing, the first applicable of: clear
\* the reply target, clear the search query, hide the members overlay, exit
C15_EscapeOrder ==
    [][KeyPress("escape") =>
          IF replyingTo # <<>>
          THEN replyingTo' = <<>> /\ UNCHANGED <<searchQuery, showMembers, exited>>
          ELSE IF searchQuery # <<>>
          THEN searchQuery' = <<>> /\ UNCHANGED <<replyingTo, showMembers, exited>>
          ELSE IF showMembers
          THEN ~showMembers' /\ UNCHANGED <<replyingTo, searchQuery, exited>>
          ELSE exited' /\ UNCHANGED <<replyingTo, searchQuery, showMembers>>]_vars

\* the selected chat is a group whose metadata is cached
C26_Applies ==
    \E i \in 1..Len(chats) :
        /\ chats[i].id = selectedChatId
        /\ Get(chats[i], "isGroup", UndefBool) = "true"
        /\ Get(chats[i], "groupMetadata", UndefMeta) # <<>>

\* C26: the key m toggles the members overlay and moves the focus (to the
\* members pane when shown, to the input pane when hidden) only for a selected
\* group with cached metadata; otherwise it changes neither
C26_ToggleNeedsMetadata ==
    [][KeyPress("m") =>
          IF C26_Applies
          THEN /\ showMembers' = ~showMembers
               /\ focusedPane' = IF showMembers THEN "input" ELSE "members"
          ELSE UNCHANGED <<showMembers, focusedPane>>]_vars

----------------------------------------------------------------------------
(* The connection of WhatsAppClient (whatsapp.ts:141-186) *)

\* qrcode.generate(newQr, { small: true }, ...): the code drawn in half blocks
generate(qr) == <<"[">> \o qr \o <<"]">>

\* the body of init: the auth state is loaded and a socket is made, whose
\* connection.update events the handler below receives
ClientInit ==
    /\ socket' = "connecting"
    /\ inits' = inits + 1

\* wa.init(...) of the mount effect (App.tsx:281-387)
Mount ==
    /\ Running
    /\ inits = 0
    /\ ClientInit
    /\ UNCHANGED <<storeVars, appVars, navVars, effectVars, diskVars, fnVars, historyVars,
                   reconnectTimers, qrCodeString, closeLog, clockVars>>

\* the socket emits connection.update: a qr while connecting, open once, close
\* once with a status code; the handler of whatsapp.ts:166-183 and the callbacks
\* of App.tsx:283-288 run
ConnectionUpdate(update) ==
    /\ Running
    /\ update.connection = "open" => socket = "connecting"
    /\ update.connection = "close" => socket \in {"connecting", "open"}
    /\ update.connection = "undefined" => socket = "connecting" /\ Truthy(update.qr)
    /\ qrCodeString' = IF Truthy(update.qr) THEN generate(update.qr) ELSE qrCodeString
    /\ reconnectTimers' =
          IF update.connection = "close" /\ shouldReconnect(update.statusCode)
          THEN reconnectTimers + 1 ELSE reconnectTimers
    /\ connected' = (connected \/ update.connection = "open")
    /\ dirty' = IF update.connection = "open" /\ ~connected
                THEN dirty \cup {"connected"} ELSE dirty
    /\ socket' = CASE update.connection = "open" -> "open"
                   [] update.connection = "close" -> "closed"
                   [] OTHER -> socket
    /\ closeLog' = IF update.connection = "close"
                   THEN Append(closeLog, update.statusCode) ELSE closeLog
    /\ UNCHANGED <<storeVars, appVars, chatOffset, focusedPane, selectedMessageIndex,
                   showMembers, downloadingFile, crashed, fetches, diskVars, fnVars,
                   historyVars, inits, clockVars>>

\* the timer set by a close fires after 5000 ms and calls init again
ReconnectTimeout ==
    /\ reconnectTimers > 0
    /\ reconnectTimers' = reconnectTimers - 1
    /\ ClientInit
    /\ UNCHANGED <<storeVars, appVars, navVars, effectVars, diskVars, fnVars, historyVars,
                   qrCodeString, closeLog, clockVars>>

----------------------------------------------------------------------------
(* SpecConn: closes of the connection and the reconnects that follow *)

MaxCloses == 3

ConnQr == <<"q">>

ConnUpdates ==
    {[connection |-> "undefined", qr |-> ConnQr, statusCode |-> UndefNum],
     [connection |-> "open", qr |-> UndefStr, statusCode |-> UndefNum]}
    \cup {[connection |-> "close", qr |-> UndefStr, statusCode |-> code] :
             code \in CloseCodes}

InitConn ==
    /\ StoreEmpty
    /\ AppInit
    /\ DiskEmpty
    /\ HistoryEmpty
    /\ FnIdle

NextConn ==
    \/ Mount
    \/ /\ inits > 0
       /\ ~client
       /\ ClientReady
    \/ RunEffects
    \/ \E update \in ConnUpdates :
          /\ update.connection = "close" => Len(closeLog) < MaxCloses
          /\ ConnectionUpdate(update)
    \/ ReconnectTimeout

\* the timer of the reconnect fires once its delay has passed
SpecConn == InitConn /\ [][NextConn]_vars /\ WF_vars(ReconnectTimeout)

\* the closes so far whose status code is not that of a logout
C17_OtherCloses == Cardinality({i \in 1..Len(closeLog) : closeLog[i] # 401})

----------------------------------------------------------------------------
(* SpecRestore: the start of App over the contents of the two files *)

RestoreChats == applyHistoryChats(<<>>, NavSaved, 1, Now)
RestoreContacts == updateContacts(EmptyObj, <<MkContact(JidCanon1, <<NameAl>>, <<>>)>>)
RestoreMessages == [c \in {JidCanon1} |-> <<formatMessage(PeerText(1))[1]>>]
RestoreOverrides == [c \in {JidCanon5} |-> NameZed]

\* a field of the data record: missing, null, of another shape, or as written
RestoreFields(wrong, valid) == {<<>>, <<JNull>>, <<wrong>>, <<valid>>}

RestoreObjects ==
    {Spread(Spread(OptKey("chats", c), OptKey("contacts", k)), OptKey("messages", m)) :
        c \in RestoreFields(JString(<<"x">>), JArray(RestoreChats)),
        k \in RestoreFields(JArray(<<>>), JObject(RestoreContacts)),
        m \in RestoreFields(JArray(<<>>), JObject(RestoreMessages))}

DataFiles ==
    {<<>>, <<Unparseable>>, <<JNull>>, <<JNumber(<<"5">>)>>, <<JArray(<<>>)>>}
    \cup {<<JObject(o)>> : o \in RestoreObjects}

OverridesFiles == {<<>>, <<Unparseable>>, <<JArray(<<>>)>>, <<JObject(RestoreOverrides)>>}

InitRestore ==
    /\ StoreEmpty
    /\ AppInit
    /\ dataFile \in DataFiles
    /\ overridesFile \in OverridesFiles
    /\ HistoryEmpty
    /\ FnIdle

NextRestore == Start

SpecRestore == InitRestore /\ [][NextRestore]_vars

\* the data record is the one the application writes
C18_ValidData ==
    dataFile = <<Snapshot(RestoreChats, RestoreContacts, RestoreMessages)>>

C18_ValidOverrides == overridesFile = <<JObject(RestoreOverrides)>>

\* C18: the start never fails, and a record that is not valid yields empty state
C18_RestoreNeverFails ==
    [][Start =>
          /\ ~crashed'
          /\ ~C18_ValidData
                => chats' = <<>> /\ DOMAIN contacts' = {} /\ DOMAIN messages' = {}
          /\ ~C18_ValidOverrides => DOMAIN contactOverrides' = {}]_vars

----------------------------------------------------------------------------
(* SpecLogout: /logout next to the two timers *)

MaxElapsed == 3

LogoutUpdates ==
    {[connection |-> "open", qr |-> UndefStr, statusCode |-> UndefNum],
     [connection |-> "close", qr |-> UndefStr, statusCode |-> 408]}

NextLogout ==
    \/ Mount
    \/ /\ inits > 0
       /\ ~client
       /\ ClientReady
    \/ RunEffects
    \/ /\ Settled
       /\ \E update \in LogoutUpdates :
             /\ update.connection = "close" => Len(closeLog) < MaxCloses
             /\ ConnectionUpdate(update)
    \/ ReconnectTimeout
    \/ /\ Settled
       /\ connected
       /\ Submit(CmdLogout, AnyEnv)
       /\ UNCHANGED aliasLog
    \/ /\ Settled
       /\ \E c \in StoreSet : ChatsUpsert(<<c>>, Now)
    \/ /\ sinceWrite < MaxElapsed
       /\ Tick
    \/ Persist

SpecLogout == InitConn /\ [][NextLogout]_vars

\* C21: once /logout has completed no timer acts: the records are not written
\* and init is not called again
C21_NoTaskAfterLogout ==
    [][exited => /\ dataFile' = dataFile
                 /\ overridesFile' = overridesFile
                 /\ inits' = inits
                 /\ socket' = socket]_vars

----------------------------------------------------------------------------
(* SpecSync: batches of messaging-history.set, final or not, and the timer *)

MaxSyncTimers == 2

SyncChats == {<<>>} \cup {<<c>> : c \in NavChatPayloads}

NextSync ==
    \/ \E batch \in SyncChats, isLatest \in BOOLEAN :
          /\ isLatest => syncTimers < MaxSyncTimers
          /\ MessagingHistorySet([chats |-> batch, contacts |-> <<>>,
                                  isLatest |-> isLatest], Now)
    \/ SyncTimeout
    \/ RunEffects

SpecSync == InitStore /\ [][NextSync]_vars

\* C22: while the indicator is shown the estimate never decreases; it is below
\* complete after a batch that is not final and complete right after a final
\* one; the indicator is cleared only when no later batch is being reported
C22_ProgressMonotone ==
    [][/\ (isSyncing /\ isSyncing') => syncProgress' >= syncProgress
       /\ \A batch \in SyncChats :
             /\ MessagingHistorySet([chats |-> batch, contacts |-> <<>>,
                                     isLatest |-> FALSE], Now)
                   => syncProgress' < 100
             /\ MessagingHistorySet([chats |-> batch, contacts |-> <<>>,
                                     isLatest |-> TRUE], Now)
                   => syncProgress' = 100
       /\ (isSyncing /\ ~isSyncing') => syncProgress = 100]_vars

----------------------------------------------------------------------------
(* SpecPersist: the persistence interval while chats events arrive *)

NextPersist ==
    \/ /\ Settled
       /\ \E c \in StoreSet \cup StoreUpserts : ChatsUpsert(<<c>>, Now)
    \/ RunEffects
    \/ /\ Settled
       /\ sinceWrite < MaxElapsed
       /\ Tick
    \/ Settled /\ Persist

SpecPersist == InitStore /\ [][NextPersist]_vars

\* C23: no more than one interval elapses without the records being written,
\* however often the store changes
C23_WrittenEveryInterval == sinceWrite <= PersistTicks

----------------------------------------------------------------------------
(* SpecReplay: notification batches that are delivered more than once *)

MaxDeliveries == 5

ReplayBatches ==
    {[type |-> "notify", messages |-> <<PeerText(1)>>],
     [type |-> "notify", messages |-> <<PeerText(2)>>],
     [type |-> "notify", messages |-> <<PeerText(1), PeerText(2)>>],
     [type |-> "notify", messages |-> <<OwnImage(1)>>],
     [type |-> "notify", messages |-> <<OwnImage(2)>>]}

NextReplay ==
    \E m \in ReplayBatches :
        /\ Logged(JidCanon1) + Logged(JidGroup) + Len(m.messages) <= MaxDeliveries
        /\ MessagesUpsert(m, Now)

SpecReplay == InitStore /\ [][NextReplay]_vars

\* every message of the batch is in the window of its chat
C25_Delivered(m) ==
    \A i \in 1..Len(m.messages) :
        LET msg == m.messages[i]
            window == Get(messages, msg.key.remoteJid, <<>>)
        IN  \E k \in 1..Len(window) : window[k].id = msg.key.id

\* the unread counts of the chats, by chat id
C25_Unread(list) == {<<list[i].id, Get(list[i], "unreadCount", UndefNum)>> : i \in 1..Len(list)}

\* C25: a batch delivered again leaves the message windows and the unread
\* counts as they were after its first delivery
C25_ReplaySafe ==
    [][\A m \in ReplayBatches :
          (C25_Delivered(m) /\ MessagesUpsert(m, Now))
              => /\ messages' = messages
                 /\ C25_Unread(chats') = C25_Unread(chats)]_vars

----------------------------------------------------------------------------
(* SpecMessages: keys in the messages pane over restored windows *)

MaxArrivals == 1

\* a text of a peer in the chat id, with the message id n
ChatText(id, n) ==
    [key |-> [remoteJid |-> id, id |-> n, fromMe |-> "false"],
     message |-> [conversation |-> MsgHi],
     messageTimestamp |-> 1]

\* the windows of the snapshot: three messages, one message, none
SavedMessages ==
    (JidCanon1 :> <<formatMessage(ChatText(JidCanon1, 1))[1],
                    formatMessage(ChatText(JidCanon1, 2))[1],
                    formatMessage(ChatText(JidCanon1, 3))[1]>>)
    @@ (JidCanon5 :> <<formatMessage(ChatText(JidCanon5, 1))[1]>>)

MessageKeys == {"upArrow", "downArrow", "tab", "r", "x"}

InitMessages ==
    /\ chats = applyHistoryChats(<<>>, NavSaved, 1, Now)
    /\ contacts = EmptyObj
    /\ messages = SavedMessages
    /\ contactOverrides = EmptyObj
    /\ AppInit
    /\ dataFile = <<Snapshot(chats, contacts, messages)>>
    /\ overridesFile = <<>>
    /\ HistoryEmpty
    /\ FnIdle

NextMessages ==
    \/ Settled /\ ClientReady
    \/ Settled /\ client /\ ConnectionOpen
    \/ RunEffects
    \/ /\ Settled
       /\ Len(outbox) < MaxCalls
       /\ \E key \in MessageKeys :
             /\ key \in CharKeys => focusedPane = "messages"
             /\ KeyPress(key)
    \/ /\ Settled
       /\ connected
       /\ focusedPane = "input"
       /\ dataFile # <<>>
       /\ Submit(CmdClear, AnyEnv)
       /\ UNCHANGED aliasLog
    \/ /\ Settled
       /\ client
       /\ dataFile # <<>>
       /\ Logged(JidCanon5) < MaxArrivals
       /\ MessagesUpsert([type |-> "notify",
                          messages |-> <<ChatText(JidCanon5, 2 + Logged(JidCanon5))>>],
                         Now)

SpecMessages == InitMessages /\ [][NextMessages]_vars

\* the length of the window of the selected chat
C27_Window ==
    IF selectedChatId \in DOMAIN messages THEN Len(messages[selectedChatId]) ELSE 0

\* C27: in the messages pane over a window of n > 0 messages, up or down from
\* -1 selects n-1, up from i >= 0 selects max(0, i-1), down selects
\* min(n-1, i+1); over an empty window up and down change nothing
C27_MessageNavigation ==
    [][\A key \in {"upArrow", "downArrow", "k", "j"} :
          (KeyPress(key) /\ focusedPane = "messages") =>
              LET n == C27_Window
                  i == selectedMessageIndex
                  isUp == key \in {"upArrow", "k"}
              IN  selectedMessageIndex' =
                      IF n = 0 THEN i
                      ELSE IF i = -1 THEN n - 1
                      ELSE IF isUp THEN (IF i - 1 > 0 THEN i - 1 ELSE 0)
                      ELSE (IF i + 1 < n - 1 THEN i + 1 ELSE n - 1)]_vars

\* two up presses after the first one have moved the selection from the last
\* of three messages to the first
C27_Witness ==
    /\ focusedPane = "messages"
    /\ C27_Window = 3
    /\ selectedMessageIndex = 0

\* C30: once the effects have run, selectedMessageIndex is -1 or an index of
\* the window of the selected chat
C30_IndexInsideWindow ==
    Settled => \/ selectedMessageIndex = -1
               \/ 0 <= selectedMessageIndex /\ selectedMessageIndex < C27_Window

----------------------------------------------------------------------------
(* Submissions that cannot be sent (App.tsx:477-480, 535-563) *)

PathPhoto == <<"a", ".", "p", "n", "g">>

SendTexts == {MsgHi, CmdSend \o PathPhoto}

SendEnvs == [fileExists : BOOLEAN, sendOk : BOOLEAN]

SendKeys == {"upArrow", "downArrow", "tab", "escape"}

NextSend ==
    \/ Settled /\ ClientReady
    \/ Settled /\ client /\ ConnectionOpen
    \/ RunEffects
    \/ Settled /\ Len(outbox) < MaxCalls /\ \E key \in SendKeys : KeyPress(key)
    \/ /\ Settled
       /\ connected
       /\ focusedPane = "input"
       /\ Len(outbox) < MaxCalls
       /\ \E text \in SendTexts, env \in SendEnvs : Submit(text, env)
       /\ UNCHANGED aliasLog

SpecSend == InitMessages /\ [][NextSend]_vars

\* the submission cannot be sent: a file that does not exist, or no target chat
C29_Invalid(text, env) ==
    \/ StartsWith(text, CmdSend) /\ ~env.fileExists
    \/ selectedChatId = UndefStr

\* C29: an invalid submission (a /send whose file does not exist, or a text or
\* a /send while no chat is selected) sets the inline error message, issues no
\* transport call and leaves chats, contacts, messages and overrides unchanged
C29_InvalidReported ==
    [][\A text \in SendTexts, env \in SendEnvs :
          (client /\ C29_Invalid(text, env) /\ Submit(text, env))
              => /\ errorMsg' # UndefStr
                 /\ outbox' = outbox
                 /\ UNCHANGED <<chats, contacts, messages, contactOverrides>>]_vars

\* what the code does keep: a /send of a missing file into a selected chat
\* reports "File not found" and sends nothing
C29_MissingFileReported ==
    [][\A text \in SendTexts, env \in SendEnvs :
          (client /\ selectedChatId # UndefStr /\ StartsWith(text, CmdSend)
                  /\ ~env.fileExists /\ Submit(text, env))
              => /\ errorMsg' = StrFileNotFound
                 /\ outbox' = outbox
                 /\ UNCHANGED <<chats, contacts, messages, contactOverrides>>]_vars

----------------------------------------------------------------------------
(* SpecPage: chat navigation over a list longer than one page
   (App.tsx:425-440, 616) *)

\* the number of chats of the snapshot: two more than a page
PageChats == 17

DecimalDigits == <<"0", "1", "2", "3", "4", "5", "6", "7", "8", "9">>

\* the jid of the n-th person, n < 100
PageJid(n) == <<DecimalDigits[(n \div 10) + 1], DecimalDigits[(n % 10) + 1]>> \o CANON

\* the chats of the snapshot, newest first; only the first name holds an "o"
PageSaved ==
    [n \in 1..PageChats |->
        [id |-> PageJid(n), name |-> IF n = 1 THEN NameBo ELSE NameAl,
         conversationTimestamp |-> PageChats + 1 - n]]

\* a search that keeps the first chat only
PageSearch == CmdSearch \o <<"o">>

PageKeys == {"upArrow", "downArrow", "escape"}

InitPage ==
    /\ chats = applyHistoryChats(<<>>, PageSaved, 1, Now)
    /\ contacts = EmptyObj
    /\ messages = EmptyObj
    /\ contactOverrides = EmptyObj
    /\ AppInit
    /\ dataFile = <<Snapshot(chats, contacts, messages)>>
    /\ overridesFile = <<>>
    /\ HistoryEmpty
    /\ FnIdle

\* the keys reach useInput from the start; once the connection is open every
\* selection also issues a readMessages call, which MaxCalls bounds
NextPage ==
    \/ Settled /\ ClientReady
    \/ Settled /\ client /\ ConnectionOpen
    \/ RunEffects
    \/ Settled /\ Len(outbox) < MaxCalls /\ \E key \in PageKeys : KeyPress(key)
    \/ /\ Settled
       /\ connected
       /\ focusedPane = "input"
       /\ Submit(PageSearch, AnyEnv)
       /\ UNCHANGED aliasLog
    \/ /\ Settled
       /\ client
       /\ Logged(PageJid(PageChats)) < MaxArrivals
       /\ MessagesUpsert([type |-> "notify",
                          messages |-> <<ChatText(PageJid(PageChats), 1)>>],
                         Now)

SpecPage == InitPage /\ [][NextPage]_vars

\* the index of the chat id in the list the chat pane shows for a search
C28_IndexOf(list, query, id) == FindIndex(filterChats(list, query), id) - 1

\* the index before and after a step
C28_Index == C28_IndexOf(chats, searchQuery, selectedChatId)
C28_IndexAfter == C28_IndexOf(chats', searchQuery', selectedChatId')

\* C28: after every chat-selection move the index i of the selected chat in
\* the filtered list satisfies chatOffset <= i < chatOffset + CHATS_PER_PAGE,
\* whatever reordering or search came before the move
C28_SelectionOnPage ==
    [][\A key \in PageKeys :
          (KeyPress(key) /\ selectedChatId' # selectedChatId)
              => /\ chatOffset' <= C28_IndexAfter
                 /\ C28_IndexAfter < chatOffset' + CHATS_PER_PAGE]_vars

\* what the code does keep: a move inside an unchanged list, from a selection
\* that is on the page, stays on the page
C28_MoveFromPageStaysOnPage ==
    [][\A key \in PageKeys :
          (/\ KeyPress(key)
           /\ selectedChatId' # selectedChatId
           /\ \/ selectedChatId = UndefStr /\ chatOffset = 0
              \/ chatOffset <= C28_Index /\ C28_Index < chatOffset + CHATS_PER_PAGE)
              => /\ chatOffset' <= C28_IndexAfter
                 /\ C28_IndexAfter < chatOffset' + CHATS_PER_PAGE]_vars

----------------------------------------------------------------------------
(* The focus on the members pane (App.tsx:410-423, 460-463) *)

\* C31: whenever the focus is on the members pane the members overlay is
\* shown, whatever toggles, escapes and chat selections came before
C31_MembersFocusShown == focusedPane = "members" => showMembers

----------------------------------------------------------------------------
(* SpecCommand: slash commands typed with a chat selected (App.tsx:481-558) *)

\* the names of the command surface
CommandNames ==
    {<<"/", "s", "e", "a", "r", "c", "h">>, <<"/", "a", "l", "i", "a", "s">>,
     <<"/", "u", "n", "a", "l", "i", "a", "s">>, CmdClear, CmdLogout}

IsCommand(text) == \E name \in CommandNames : StartsWith(text, name)

\* the commands as sendMessage expects them
CommandsWellFormed ==
    {CmdSearch \o <<"o">>, CmdClear, AliasText(<<"1">>, NameZed), CmdLogout,
     UnaliasText(<<"1">>)}

\* an alias without a name, an unalias followed only by a space
CommandsMalformed == {CmdAlias \o <<"1">>, CmdUnalias \o <<" ">>}

CommandTexts == CommandsWellFormed \cup CommandsMalformed \cup {MsgHi}

CommandKeys == {"upArrow", "downArrow"}

NextCommand ==
    \/ Settled /\ ClientReady
    \/ Settled /\ client /\ ConnectionOpen
    \/ RunEffects
    \/ Settled /\ Len(outbox) < MaxCalls /\ \E key \in CommandKeys : KeyPress(key)
    \/ /\ Settled
       /\ connected
       /\ focusedPane = "input"
       /\ Len(outbox) < MaxCalls
       /\ \E text \in CommandTexts :
             /\ text = CmdClear => dataFile # <<>>
             /\ Submit(text, AnyEnv)
       /\ UNCHANGED aliasLog

SpecCommand == InitMessages /\ [][NextCommand]_vars

\* the step appends a send-text call to the calls of the transport
C32_SendsText ==
    \E i \in (Len(outbox) + 1)..Len(outbox') :
        /\ outbox'[i].call = "sendMessage"
        /\ outbox'[i].content.kind = "text"

\* C32: input that starts with a command name of the command surface is
\* never sent to the transport as a text message, malformed forms included
C32_CommandNeverSent ==
    [][\A text \in CommandTexts :
          (IsCommand(text) /\ Submit(text, AnyEnv)) => ~C32_SendsText]_vars

\* what the code does keep: a command in the form sendMessage expects is
\* never sent as a text
C32_WellFormedNeverSent ==
    [][\A text \in CommandsWellFormed :
          Submit(text, AnyEnv) => ~C32_SendsText]_vars

=============================================================================
